---- MODULE Spec2Model ----
(***************************************************************************)
(* A state-machine model of the shannon runtime coordination layer:        *)
(* the auth ledger (permission lookup, sudo escalation, rate limiting),    *)
(* the slash-command handler, the tool-use loop, the webhook ingress and   *)
(* the event bus.  Each subsystem has its own specification over the       *)
(* shared variable tuple; a specification leaves the variables of the      *)
(* other subsystems unchanged.                                             *)
(***************************************************************************)
EXTENDS Integers, Sequences, FiniteSets, TLC

\* ------------------------------------------------------------------------
\* Bounds of the model
\* ------------------------------------------------------------------------
\* seconds the clock advances in one Tick
ClockStep == 20
\* the clock stops advancing here
MaxTime == 60
\* number of sudo requests that are ever allocated
MaxRequests == 2
\* AuthConfig.rate_limit_per_minute of the modelled configuration
rate_limit == 2
\* max_iterations passed to ToolExecutor.run
max_iterations == 2
\* tool calls one provider response carries at most
MaxToolCalls == 1
\* EventBus(max_queue_size) of the modelled bus
max_queue_size == 1
\* subscriptions that are ever made
MaxSubs == 2
\* events that are ever published
MaxEvents == 3
\* worker tasks alive at one time
MaxTasks == 2
\* seconds the clock advances in one CronTick
CronStep == 30
\* the scheduler's clock stops advancing here
MaxCronTime == 120
\* iterations of the cron loop that are ever started
MaxIters == 3
\* rows the jobs table ever holds
MaxJobs == 3
\* tool calls in one provider response when echo is the one tool asked for
MaxEchoCalls == 2
\* steps of a plan given to execute_plan, long plans apart
MaxSteps == 3
\* steps of a long plan beyond MAX_TOOL_INVOCATIONS
MaxOver == 1
\* steps of a long plan whose tool fails
MaxFailures == 2
\* events that ever reach the consumers behind the pause gate
MaxGateEvents == 3
\* auto-resume tasks that are ever created
MaxTimers == 2
\* the length of the lists of arbitrary items a provider answers with
MaxRawLen == 3
\* create_plan calls in one behaviour
MaxPlans == 1
\* ContextManager._max_messages
max_messages == 2
\* ContextManager._max_context_tokens
max_context_tokens == 2
\* rows ever inserted into the messages table
MaxRows == 3
\* events that reach the paused gate between slash commands
MaxBuffered == 1
\* pieces a text handed to the chunker is made of
MaxPieces == 5
\* ChunkerConfig.min_chunk_size of the calls
min_chunk_size == 3
\* the largest limit of a call
MaxLimit == 9

\* ------------------------------------------------------------------------
\* Permission levels and the static user map (core/auth.py)
\* ------------------------------------------------------------------------
PUBLIC == 0
TRUSTED == 1
OPERATOR == 2
ADMIN == 3

PermissionLevel == {PUBLIC, TRUSTED, OPERATOR, ADMIN}

\* the users of the model: (platform, user_id) keys
AdminKey == <<"discord", "admin123">>
UserKey == <<"discord", "user1">>

Keys == {AdminKey, UserKey}

\* AuthConfig.default_level
default_level == PUBLIC

\* AuthConfig.sudo_timeout_seconds: two clock steps
sudo_timeout == 2 * ClockStep

\* _user_map as built by _build_user_map: UserKey has no binding
user_map == (AdminKey :> ADMIN)

\* the static binding of a key, or the configured default
StaticLevel(key) ==
    IF key \in DOMAIN user_map THEN user_map[key] ELSE default_level

\* a dict without one key
DictRemove(d, key) == [k \in DOMAIN d \ {key} |-> d[k]]

\* a dict with one key set
DictPut(d, key, val) == [k \in DOMAIN d \cup {key} |-> IF k = key THEN val ELSE d[k]]

\* the empty dict
EmptyDict == <<>>

VARIABLES
    now,            \* time.time()
    sudo_grants,    \* AuthManager._sudo_grants: key -> [level, expiry]
    pending_sudo,   \* AuthManager._pending_sudo: request number -> [key, level]
    sudo_counter,   \* AuthManager._sudo_counter
    auth_last,      \* the last auth operation and what it returned
    in_force,       \* history: key -> [level, t0] of the approval in force
    rate_log,       \* AuthManager._rate_log: key -> timestamps
    rate_last,      \* the last check_rate_limit call and what it returned
    accepted,       \* history: key -> times of the calls that returned true
    ex_pc,          \* ToolExecutor.run: "idle", "call", "tools", "done", "raised"
    ex_level,       \* run's user_level
    ex_iter,        \* iterations of the for loop that are complete
    ex_messages,    \* run's current_messages
    ex_response,    \* run's response
    ex_idx,         \* position of the tool call the inner loop is at
    ex_results,     \* run's tool_results_content
    ex_ret,         \* the text run returned
    ex_calls,       \* history: provider calls made by this run
    ex_executed,    \* history: the tool calls whose tool.execute was invoked
    ex_passed,      \* history: the message list passed to the last provider call
    bus_subs,       \* EventBus._subscribers: the kind of each subscription, in order
    bus_queue,      \* the queue of each subscription
    bus_running,    \* EventBus._running
    bus_tasks,      \* EventBus._tasks: [sub, state] per worker
    bus_pubs,       \* publish calls suspended in the queue-full log call
    bus_next_id,    \* history: number of the next published event
    bus_invoked,    \* history: per subscription, the events its handler was called on
    bus_raised,     \* history: the worker whose handler raised last, or 0
    wh_pc,          \* _handle_webhook: "idle", "publishing", "answered"
    wh_req,         \* the request _handle_webhook is handling
    wh_status,      \* the status of its response, 0 before the response
    wh_ev,          \* history: the number of the event it published, or 0
    sch_jobs,       \* the jobs table: id -> [cron_expr, last_run]
    sch_pc,         \* the cron task: "stopped", "sleep", "rows", "write"
    sch_rows,       \* _check_and_fire_jobs: the fetched rows not yet looked at
    sch_iter_now,   \* _check_and_fire_jobs: now
    sch_wake,       \* the time the sleep of the cron loop ends
    sch_iter,       \* history: iterations of the cron loop started so far
    sch_fired,      \* history: the triggers published, [job, iter, at, tick]
    sch_due,        \* history: the jobs that were due when the iteration began
    pm_paused,      \* PauseManager._paused
    pm_queued,      \* PauseManager._queued_events
    pm_resume_task, \* PauseManager._resume_task: a task number, or NoTask
    pm_timers,      \* the auto-resume tasks that still sleep
    pm_next_timer,  \* the number of the next auto-resume task
    gate_next_id,   \* the number of the next event that reaches a consumer
    gate_dispatched, \* history: the events handed on, [kind, id, paused]
    pm_last,        \* history: the last call of pause, resume or drain_queue
    plan_pc,        \* execute_plan: "idle", "loop", "finish", "returned", "raised"
    plan_status,    \* plan.status
    plan_steps,     \* plan.steps: [tool, status, error] each
    plan_i,         \* the position of the for loop in plan.steps
    plan_level,     \* user_level
    plan_fails,     \* the steps on whose description the tool reports failure
    tool_invocations, \* execute_plan: tool_invocations
    plan_started,   \* history: the steps set to running, in order
    plan_executed,  \* history: the steps whose tool.execute was invoked, in order
    plan_verdicts,  \* history: the failure verdicts, [step, action]
    cp_db,          \* the plans table: plan id -> [status, steps]
    cp_next_id,     \* the number that stands for the next uuid4
    cp_last,        \* the last create_plan call: [content, outcome, plan]
    ctx_rows,       \* the messages table, in the order of insertion: [id, channel, role, tokens]
    ctx_next_id,    \* the next AUTOINCREMENT id
    ctx_llm,        \* whether ContextManager._llm is set
    ctx_last,       \* the last ContextManager call: [op, channel, messages, count]
    pl_pc,          \* MessageHandler.handle: "idle", "stored", "returned", "raised"
    pl_dry_run,     \* MessageHandler._dry_run
    pl_msg,         \* the message handle is handling, and whether the rate limiter let it pass
    pl_effects,     \* history: the calls handle has made for pl_msg, in order
    mem_keys,       \* MemoryStore: the keys of the memory table
    cmd_sent,       \* history: what the last command passed to send_fn, in order
    rt_provider,    \* the provider whose completion call is running
    rt_pc,          \* the retry loop: "idle", "trying", "returned", "raised"
    rt_attempt,     \* attempt, the loop variable
    rt_log,         \* history: the outcome of each attempt of the call, in order
    rt_waits,       \* history: the waits between the attempts, in tenths of a second
    or_pc,          \* Shannon.start: "new", "scheduler", "discord", "signal", "bus", "ready", "raised"
    or_settings,    \* the settings Shannon was constructed with
    or_transports,  \* Shannon.transports
    or_started,     \* the components whose start() has returned
    or_tasks,       \* the background task of each transport: "none", "running", "connected", "failed"
    or_raised,      \* the component whose start() raised, or "none"
    ck_pc,          \* the caller of chunk_message: "idle" or "returned"
    ck_text,        \* the text of the last call
    ck_limit,       \* the limit of the last call
    ck_chunks,      \* the chunks the last call returned
    pl_level,       \* the level handle read from get_level (-1: none read yet)
    sch_removed     \* for each deleted job id: the iteration count, loop position and triggers published when it was deleted

vars == <<now, sudo_grants, pending_sudo, sudo_counter, auth_last, in_force,
          rate_log, rate_last, accepted,
          ex_pc, ex_level, ex_iter, ex_messages, ex_response, ex_idx, ex_results,
          ex_ret, ex_calls, ex_executed, ex_passed,
          bus_subs, bus_queue, bus_running, bus_tasks, bus_pubs, bus_next_id,
          bus_invoked, bus_raised,
          wh_pc, wh_req, wh_status, wh_ev,
          sch_jobs, sch_pc, sch_rows, sch_iter_now, sch_wake, sch_iter, sch_fired, sch_due,
          pm_paused, pm_queued, pm_resume_task, pm_timers, pm_next_timer,
          gate_next_id, gate_dispatched, pm_last,
          plan_pc, plan_status, plan_steps, plan_i, plan_level, plan_fails,
          tool_invocations, plan_started, plan_executed, plan_verdicts,
          cp_db, cp_next_id, cp_last,
          ctx_rows, ctx_next_id, ctx_llm, ctx_last,
          pl_pc, pl_dry_run, pl_msg, pl_effects,
          mem_keys, cmd_sent,
          rt_provider, rt_pc, rt_attempt, rt_log, rt_waits,
          or_pc, or_settings, or_transports, or_started, or_tasks, or_raised,
          ck_pc, ck_text, ck_limit, ck_chunks,
          pl_level,
          sch_removed>>

rmVars == <<sch_removed>>

lvVars == <<pl_level>>

ckVars == <<ck_pc, ck_text, ck_limit, ck_chunks>>

orVars == <<or_pc, or_settings, or_transports, or_started, or_tasks, or_raised>>

rtVars == <<rt_provider, rt_pc, rt_attempt, rt_log, rt_waits>>

cmdVars == <<mem_keys, cmd_sent>>

plVars == <<pl_pc, pl_dry_run, pl_msg, pl_effects>>

ctxVars == <<ctx_rows, ctx_next_id, ctx_llm, ctx_last>>

cpVars == <<cp_db, cp_next_id, cp_last>>

planVars == <<plan_pc, plan_status, plan_steps, plan_i, plan_level, plan_fails,
             tool_invocations, plan_started, plan_executed, plan_verdicts>>

pmVars == <<pm_paused, pm_queued, pm_resume_task, pm_timers, pm_next_timer,
           gate_next_id, gate_dispatched>>

pmHist == <<pm_last>>

schVars == <<sch_jobs, sch_pc, sch_rows, sch_iter_now, sch_wake, sch_iter, sch_fired,
            sch_due>>

whVars == <<wh_pc, wh_req, wh_status, wh_ev>>

busVars == <<bus_subs, bus_queue, bus_running, bus_tasks, bus_pubs, bus_next_id,
             bus_invoked, bus_raised>>

execVars == <<ex_pc, ex_level, ex_iter, ex_messages, ex_response, ex_idx, ex_results,
              ex_ret, ex_calls, ex_executed, ex_passed>>

rateVars == <<rate_log, rate_last, accepted>>

sudoVars == <<sudo_grants, pending_sudo, sudo_counter, auth_last, in_force>>

\* ------------------------------------------------------------------------
\* AuthManager: level lookup
\* ------------------------------------------------------------------------
GrantLiveInclusive(t, expiry) == t <= expiry

\* the test `time.time() < expiry` of get_level
GrantLive(t, expiry) == t < expiry

\* get_level: the level returned and the grants it leaves behind
GetLevelRes(grants, key, t) ==
    IF key \in DOMAIN grants
    THEN IF GrantLive(t, grants[key].expiry)
         THEN [level |-> grants[key].level, grants |-> grants]
         ELSE [level |-> StaticLevel(key), grants |-> DictRemove(grants, key)]
    ELSE [level |-> StaticLevel(key), grants |-> grants]

\* a check_permission that looks at the configured level only
CheckPermissionStatic(grants, key, required, t) ==
    [ok |-> StaticLevel(key) >= required, grants |-> grants]

\* check_permission: the verdict and the grants get_level leaves behind
CheckPermissionRes(grants, key, required, t) ==
    LET r == GetLevelRes(grants, key, t)
    IN  [ok |-> r.level >= required, grants |-> r.grants]

\* ------------------------------------------------------------------------
\* AuthManager: sudo escalation
\* ------------------------------------------------------------------------
\* a buggy approve_sudo that pops the request before it checks the approver
ApproveSudoPopFirst(grants, pending, rid, approver, t) ==
    LET chk == CheckPermissionRes(grants, approver, ADMIN, t)
    IN  IF rid \notin DOMAIN pending
        THEN [ok |-> FALSE, grants |-> chk.grants, pending |-> pending]
        ELSE IF ~chk.ok
        THEN [ok |-> FALSE, grants |-> chk.grants, pending |-> DictRemove(pending, rid)]
        ELSE [ok |-> TRUE,
              grants |-> DictPut(chk.grants, pending[rid].key,
                                 [level |-> pending[rid].level, expiry |-> t + sudo_timeout]),
              pending |-> DictRemove(pending, rid)]

\* approve_sudo: the verdict, the grants and the pending requests it leaves
ApproveSudoRes(grants, pending, rid, approver, t) ==
    LET chk == CheckPermissionRes(grants, approver, ADMIN, t)
    IN  IF ~chk.ok
        THEN [ok |-> FALSE, grants |-> chk.grants, pending |-> pending]
        ELSE IF rid \notin DOMAIN pending
        THEN [ok |-> FALSE, grants |-> chk.grants, pending |-> pending]
        ELSE [ok |-> TRUE,
              grants |-> DictPut(chk.grants, pending[rid].key,
                                 [level |-> pending[rid].level, expiry |-> t + sudo_timeout]),
              pending |-> DictRemove(pending, rid)]

\* deny_sudo: the verdict and the pending requests it leaves
DenySudoRes(pending, rid) ==
    IF rid \notin DOMAIN pending
    THEN [ok |-> FALSE, pending |-> pending]
    ELSE [ok |-> TRUE, pending |-> DictRemove(pending, rid)]

\* the request numbers a command may name ("sudo-<n>")
RequestIds == 1..MaxRequests

\* get_level(platform, user_id), as read by the pipeline
GetLevel(key) ==
    LET r == GetLevelRes(sudo_grants, key, now)
    IN  /\ sudo_grants' = r.grants
        /\ auth_last' = [op |-> "get_level", key |-> key, rid |-> 0, ret |-> r.level]
        /\ UNCHANGED <<now, pending_sudo, sudo_counter, in_force>>

\* request_sudo(platform, user_id, action, requested_level)
RequestSudo(key, level) ==
    /\ sudo_counter < MaxRequests
    /\ sudo_counter' = sudo_counter + 1
    /\ pending_sudo' = DictPut(pending_sudo, sudo_counter + 1, [key |-> key, level |-> level])
    /\ auth_last' = [op |-> "request_sudo", key |-> key, rid |-> sudo_counter + 1,
                     ret |-> sudo_counter + 1]
    /\ UNCHANGED <<now, sudo_grants, in_force>>

\* revoke_sudo(platform, user_id)
RevokeSudo(key) ==
    /\ sudo_grants' = IF key \in DOMAIN sudo_grants THEN DictRemove(sudo_grants, key)
                      ELSE sudo_grants
    /\ in_force' = IF key \in DOMAIN sudo_grants THEN DictRemove(in_force, key) ELSE in_force
    /\ auth_last' = [op |-> "revoke_sudo", key |-> key, rid |-> 0,
                     ret |-> (key \in DOMAIN sudo_grants)]
    /\ UNCHANGED <<now, pending_sudo, sudo_counter>>

\* ------------------------------------------------------------------------
\* CommandHandler._handle_sudo (core/commands.py)
\* ------------------------------------------------------------------------
\* "/sudo": list the pending requests (admin only)
SudoList(key) ==
    LET chk == CheckPermissionRes(sudo_grants, key, ADMIN, now)
    IN  /\ sudo_grants' = chk.grants
        /\ auth_last' = [op |-> "list_pending", key |-> key, rid |-> 0, ret |-> chk.ok]
        /\ UNCHANGED <<now, pending_sudo, sudo_counter, in_force>>

\* "/sudo approve sudo-<rid>"
SudoApprove(key, rid) ==
    LET r == ApproveSudoRes(sudo_grants, pending_sudo, rid, key, now)
    IN  /\ sudo_grants' = r.grants
        /\ pending_sudo' = r.pending
        /\ auth_last' = [op |-> "approve_sudo", key |-> key, rid |-> rid, ret |-> r.ok]
        /\ in_force' = IF r.ok
                       THEN DictPut(in_force, pending_sudo[rid].key,
                                    [level |-> pending_sudo[rid].level, t0 |-> now])
                       ELSE in_force
        /\ UNCHANGED <<now, sudo_counter>>

\* "/sudo deny sudo-<rid>"
SudoDeny(key, rid) ==
    LET r == DenySudoRes(pending_sudo, rid)
    IN  /\ pending_sudo' = r.pending
        /\ auth_last' = [op |-> "deny_sudo", key |-> key, rid |-> rid, ret |-> r.ok]
        /\ UNCHANGED <<now, sudo_grants, sudo_counter, in_force>>

\* "/sudo <action>": the sender asks for the default OPERATOR level
SudoRequest(key) ==
    /\ sudo_counter < MaxRequests
    /\ sudo_counter' = sudo_counter + 1
    /\ pending_sudo' = DictPut(pending_sudo, sudo_counter + 1, [key |-> key, level |-> OPERATOR])
    /\ auth_last' = [op |-> "request_sudo", key |-> key, rid |-> sudo_counter + 1,
                     ret |-> sudo_counter + 1]
    /\ UNCHANGED <<now, sudo_grants, in_force>>

\* ------------------------------------------------------------------------
\* AuthManager: rate limiting
\* ------------------------------------------------------------------------
\* the length of the rate window in seconds
RateWindow == 60

\* the timestamps of a log that are newer than window_start
Prune(log, window_start) == SelectSeq(log, LAMBDA t : t > window_start)

LimitReachedOffByOne(n) == n > rate_limit

\* the test `len(self._rate_log[key]) >= self._rate_limit`
LimitReached(n) == n >= rate_limit

\* a refused call is logged as well
LogAfterRefusalStamped(pruned, t) == Append(pruned, t)

\* the log of the key when the call is refused: the pruned list
LogAfterRefusal(pruned, t) == pruned

\* check_rate_limit(platform, user_id)
CheckRateLimit(key) ==
    LET window_start == now - RateWindow
        pruned == Prune(rate_log[key], window_start)
    IN  IF LimitReached(Len(pruned))
        THEN /\ rate_log' = [rate_log EXCEPT ![key] = LogAfterRefusal(pruned, now)]
             /\ rate_last' = [key |-> key, ret |-> FALSE]
             /\ UNCHANGED <<now, accepted>>
        ELSE /\ rate_log' = [rate_log EXCEPT ![key] = Append(pruned, now)]
             /\ rate_last' = [key |-> key, ret |-> TRUE]
             /\ accepted' = [accepted EXCEPT ![key] = Append(@, now)]
             /\ UNCHANGED now

\* ------------------------------------------------------------------------
\* ToolExecutor.run (core/tool_executor.py)
\* ------------------------------------------------------------------------
\* the executor's tool_map: tool name -> required_permission
tool_map == ("echo" :> TRUSTED) @@ ("shell" :> OPERATOR)

\* the tool names a provider response may ask for
ToolNames == {"echo", "shell", "nope"}

\* the sequences over S of length lo..hi
SeqsUpTo(S, lo, hi) == UNION {[1..n -> S] : n \in lo..hi}

\* the tool calls of a response made in iteration it: ids are unique
ToolCallsOf(names, it) ==
    [i \in 1..Len(names) |-> [id |-> <<it, i>>, name |-> names[i]]]

\* the responses the provider may give in iteration it
Responses(it) ==
    {[content |-> c, tool_calls |-> ToolCallsOf(names, it)] :
        c \in {"", "Done"}, names \in SeqsUpTo(ToolNames, 0, MaxToolCalls)}

NoResponse == [content |-> "", tool_calls |-> <<>>]

\* `tool = self._tool_map.get(tc.name)` found a tool
ToolKnown(name) == name \in DOMAIN tool_map

PermissionDeniedBelowOnly(level, name) == level + 1 < tool_map[name]

\* the test `user_level < tool.required_permission`
PermissionDenied(level, name) == level < tool_map[name]

\* the assistant turn built from a response
AssistantContent(response) ==
    (IF response.content # "" THEN <<[type |-> "text", text |-> response.content]>> ELSE <<>>)
    \o [i \in 1..Len(response.tool_calls) |->
          [type |-> "tool_use", id |-> response.tool_calls[i].id,
           name |-> response.tool_calls[i].name]]

\* a tool_result entry that does not carry the id of its tool call
ToolResultEntryNoId(tc, level, success) ==
    [type |-> "tool_result", tool_use_id |-> <<>>,
     content |-> IF success THEN "output" ELSE "error", is_error |-> ~success]

\* the tool_result entry for one tool call; success is the ToolResult of execute
ToolResultEntry(tc, level, success) ==
    IF ~ToolKnown(tc.name)
    THEN [type |-> "tool_result", tool_use_id |-> tc.id, content |-> "unknown_tool",
          is_error |-> TRUE]
    ELSE IF PermissionDenied(level, tc.name)
    THEN [type |-> "tool_result", tool_use_id |-> tc.id, content |-> "permission_denied",
          is_error |-> TRUE]
    ELSE [type |-> "tool_result", tool_use_id |-> tc.id,
          content |-> IF success THEN "output" ELSE "error",
          is_error |-> ~success]

\* whether the inner loop invokes tool.execute for a tool call
Executes(tc, level) == ToolKnown(tc.name) /\ ~PermissionDenied(level, tc.name)

\* a for loop that makes one iteration too many
LoopGoesOnOneMore(iter) == iter <= max_iterations

\* `for _ in range(max_iterations)` has another iteration after iter of them
LoopGoesOn(iter) == iter < max_iterations

\* run(messages, system, tool_schemas, user_level) is called
ExStart(level) ==
    /\ ex_pc \in {"idle", "done", "raised"}
    /\ ex_pc' = IF LoopGoesOn(0) THEN "call" ELSE "done"
    /\ ex_level' = level
    /\ ex_iter' = 0
    /\ ex_messages' = <<[role |-> "user", content |-> "Hi"]>>
    /\ ex_response' = NoResponse
    /\ ex_idx' = 0
    /\ ex_results' = <<>>
    /\ ex_ret' = ""
    /\ ex_calls' = 0
    /\ ex_executed' = {}
    /\ ex_passed' = <<>>

\* one provider call: return the text, or append the assistant turn and
\* enter the inner loop
ExComplete(response) ==
    /\ ex_pc = "call"
    /\ ex_calls' = ex_calls + 1
    /\ ex_response' = response
    /\ IF response.tool_calls = <<>>
       THEN /\ ex_pc' = "done"
            /\ ex_ret' = response.content
            /\ UNCHANGED <<ex_messages, ex_idx, ex_results>>
       ELSE /\ ex_pc' = "tools"
            /\ ex_messages' = Append(ex_messages,
                                     [role |-> "assistant", content |-> AssistantContent(response)])
            /\ ex_idx' = 1
            /\ ex_results' = <<>>
            /\ UNCHANGED ex_ret
    /\ ex_passed' = ex_messages
    /\ UNCHANGED <<ex_level, ex_iter, ex_executed>>

\* the provider call raises (the retries of the provider are used up, or the
\* error is not one it retries): the exception leaves run
ExCompleteRaises ==
    /\ ex_pc = "call"
    /\ ex_calls' = ex_calls + 1
    /\ ex_pc' = "raised"
    /\ ex_passed' = ex_messages
    /\ UNCHANGED <<ex_level, ex_iter, ex_messages, ex_response, ex_idx, ex_results,
                   ex_ret, ex_executed>>

\* tool.execute raises instead of returning a ToolResult (ShellTool reads
\* kwargs["command"] outside its try): the exception leaves run
ExToolRaises ==
    /\ ex_pc = "tools"
    /\ Executes(ex_response.tool_calls[ex_idx], ex_level)
    /\ ex_executed' = ex_executed \cup {ex_response.tool_calls[ex_idx]}
    /\ ex_pc' = "raised"
    /\ UNCHANGED <<ex_level, ex_iter, ex_messages, ex_response, ex_idx, ex_results,
                   ex_ret, ex_calls, ex_passed>>

\* the inner loop handles the tool call at ex_idx; after the last one the
\* user turn with all results is appended and the iteration ends
ExToolCall(success) ==
    /\ ex_pc = "tools"
    /\ LET tc == ex_response.tool_calls[ex_idx]
           results == Append(ex_results, ToolResultEntry(tc, ex_level, success))
       IN  /\ ex_executed' = IF Executes(tc, ex_level)
                             THEN ex_executed \cup {tc}
                             ELSE ex_executed
           /\ IF ex_idx < Len(ex_response.tool_calls)
              THEN /\ ex_idx' = ex_idx + 1
                   /\ ex_results' = results
                   /\ UNCHANGED <<ex_pc, ex_iter, ex_messages, ex_ret>>
              ELSE /\ ex_messages' = Append(ex_messages, [role |-> "user", content |-> results])
                   /\ ex_results' = results
                   /\ ex_idx' = 0
                   /\ ex_iter' = ex_iter + 1
                   /\ IF LoopGoesOn(ex_iter + 1)
                      THEN ex_pc' = "call" /\ UNCHANGED ex_ret
                      ELSE ex_pc' = "done" /\ ex_ret' = ex_response.content
    /\ UNCHANGED <<ex_level, ex_response, ex_calls, ex_passed>>

\* ------------------------------------------------------------------------
\* EventBus (core/bus.py)
\* ------------------------------------------------------------------------
\* the event kinds of the modelled publishers
Kinds == {"message.incoming", "message.outgoing"}

\* put_nowait raises QueueFull
QueueFull(q) == Len(q) >= max_queue_size

\* a buggy publish loop that gives up at the first full queue
RECURSIVE PublishRunStopAtFull(_, _, _)
PublishRunStopAtFull(qs, ev, i) ==
    IF i > Len(bus_subs) THEN [queues |-> qs, next |-> 0]
    ELSE IF bus_subs[i] # ev.kind THEN PublishRunStopAtFull(qs, ev, i + 1)
    ELSE IF ~QueueFull(qs[i])
    THEN PublishRunStopAtFull([qs EXCEPT ![i] = Append(@, ev)], ev, i + 1)
    ELSE [queues |-> qs, next |-> 0]

\* the loop of publish from subscription i on, up to its next suspension:
\* it enqueues without blocking and, at a full queue, drops the event for
\* that subscription and awaits the log call (next = where it resumes);
\* next = 0 when the loop has ended
RECURSIVE PublishRun(_, _, _)
PublishRun(qs, ev, i) ==
    IF i > Len(bus_subs) THEN [queues |-> qs, next |-> 0]
    ELSE IF bus_subs[i] # ev.kind THEN PublishRun(qs, ev, i + 1)
    ELSE IF ~QueueFull(qs[i])
    THEN PublishRun([qs EXCEPT ![i] = Append(@, ev)], ev, i + 1)
    ELSE [queues |-> qs, next |-> i + 1]

\* a subscribe that gives the new subscription a worker when the bus runs
TasksAfterSubscribeSpawns(tasks) ==
    IF bus_running THEN Append(tasks, [sub |-> Len(bus_subs) + 1, state |-> "waiting"])
    ELSE tasks

\* subscribe makes a queue and leaves self._tasks alone
TasksAfterSubscribe(tasks) == tasks

\* subscribe(event_type, handler)
Subscribe(kind) ==
    /\ Len(bus_subs) < MaxSubs
    /\ bus_subs' = Append(bus_subs, kind)
    /\ bus_queue' = Append(bus_queue, <<>>)
    /\ bus_invoked' = Append(bus_invoked, <<>>)
    /\ bus_tasks' = TasksAfterSubscribe(bus_tasks)
    /\ UNCHANGED <<bus_running, bus_pubs, bus_next_id, bus_raised>>

\* publish(event) is called and runs to its first suspension or to its end
Publish(kind) ==
    /\ bus_next_id <= MaxEvents
    /\ LET ev == [kind |-> kind, id |-> bus_next_id]
           r == PublishRun(bus_queue, ev, 1)
       IN  /\ bus_queue' = r.queues
           /\ bus_pubs' = IF r.next = 0 THEN bus_pubs
                          ELSE bus_pubs \cup {[ev |-> ev, next |-> r.next]}
    /\ bus_next_id' = bus_next_id + 1
    /\ UNCHANGED <<bus_subs, bus_running, bus_tasks, bus_invoked, bus_raised>>

\* the log call of a suspended publish completes and its loop goes on
PublishResume(p) ==
    /\ p \in bus_pubs
    /\ LET r == PublishRun(bus_queue, p.ev, p.next)
       IN  /\ bus_queue' = r.queues
           /\ bus_pubs' = IF r.next = 0 THEN bus_pubs \ {p}
                          ELSE (bus_pubs \ {p}) \cup {[ev |-> p.ev, next |-> r.next]}
    /\ UNCHANGED <<bus_subs, bus_running, bus_tasks, bus_next_id, bus_invoked, bus_raised>>

\* a start that makes two workers for the first subscription
WorkersOfTwice(subs) ==
    <<[sub |-> 1, state |-> "waiting"]>> \o [i \in 1..Len(subs) |-> [sub |-> i, state |-> "waiting"]]

\* the tasks start() creates: one _consumer per (handler, queue)
WorkersOf(subs) == [i \in 1..Len(subs) |-> [sub |-> i, state |-> "waiting"]]

\* start(): one worker task per subscription
BusStart ==
    /\ Len(bus_tasks) + Len(bus_subs) <= MaxTasks
    /\ bus_subs # <<>>
    /\ bus_running' = TRUE
    /\ bus_tasks' = bus_tasks \o WorkersOf(bus_subs)
    /\ UNCHANGED <<bus_subs, bus_queue, bus_pubs, bus_next_id, bus_invoked, bus_raised>>

\* stop(): the workers are cancelled and forgotten
BusStop ==
    /\ bus_running
    /\ bus_running' = FALSE
    /\ bus_tasks' = <<>>
    /\ bus_raised' = 0
    /\ UNCHANGED <<bus_subs, bus_queue, bus_pubs, bus_next_id, bus_invoked>>

\* a get that leaves the event in the queue
TakeFirstKeep(q) == [ev |-> Head(q), rest |-> q]

\* queue.get(): the oldest event and the rest of the queue
TakeFirst(q) == [ev |-> Head(q), rest |-> Tail(q)]

\* _consumer: queue.get() returns an event and the handler is called on it
ConsumerGet(t) ==
    /\ bus_running
    /\ bus_tasks[t].state = "waiting"
    /\ bus_queue[bus_tasks[t].sub] # <<>>
    /\ LET s == bus_tasks[t].sub
           g == TakeFirst(bus_queue[s])
       IN  /\ bus_queue' = [bus_queue EXCEPT ![s] = g.rest]
           /\ bus_tasks' = [bus_tasks EXCEPT ![t] = [sub |-> s, state |-> "handling"]]
           /\ bus_invoked' = [bus_invoked EXCEPT ![s] = Append(@, g.ev)]
    /\ UNCHANGED <<bus_subs, bus_running, bus_pubs, bus_next_id, bus_raised>>

\* _consumer: the handler returns
HandlerReturn(t) ==
    /\ bus_tasks[t].state = "handling"
    /\ bus_tasks' = [bus_tasks EXCEPT ![t] = [sub |-> @.sub, state |-> "waiting"]]
    /\ UNCHANGED <<bus_subs, bus_queue, bus_running, bus_pubs, bus_next_id, bus_invoked,
                   bus_raised>>

\* a worker whose task ends with the handler's exception
TasksAfterRaiseDies(tasks, t) == [tasks EXCEPT ![t] = [sub |-> @.sub, state |-> "dead"]]

\* `except Exception`: the error is logged and the worker loops
TasksAfterRaise(tasks, t) == [tasks EXCEPT ![t] = [sub |-> @.sub, state |-> "waiting"]]

\* _consumer: the handler raises an Exception
HandlerRaise(t) ==
    /\ bus_tasks[t].state = "handling"
    /\ bus_tasks' = TasksAfterRaise(bus_tasks, t)
    /\ bus_raised' = t
    /\ UNCHANGED <<bus_subs, bus_queue, bus_running, bus_pubs, bus_next_id, bus_invoked>>

\* ------------------------------------------------------------------------
\* Webhook ingress (shannon/webhooks/server.py, shannon/webhooks/handlers.py)
\* ------------------------------------------------------------------------
\* EventType.WEBHOOK_RECEIVED, the kind of the events the server publishes
WEBHOOK_RECEIVED == "webhook.received"

\* A Python str is modelled as [pre, mac, text]: the text `text`, or the hex
\* digest of the HMAC-SHA256 of body mac[2] under key mac[1] (digests of
\* different inputs are different strings), behind the prefix `pre`.
Str(text) == [pre |-> "", mac |-> <<>>, text |-> text]

EmptyStr == Str("")

\* hmac.new(secret.encode(), body, hashlib.sha256).hexdigest()
HexDigest(secret, body) == [pre |-> "", mac |-> <<secret, body>>, text |-> ""]

\* "sha256=" + s
Sha256Prefixed(s) == [s EXCEPT !.pre = "sha256="]

\* a header value that holds a character outside ASCII
NonAsciiText == "caf\\u00e9"

IsAscii(s) == s.text # NonAsciiText

\* hmac.compare_digest on two str: TypeError unless both are ASCII
compare_digest(a, b) ==
    IF ~IsAscii(a) \/ ~IsAscii(b) THEN "TypeError"
    ELSE IF a = b THEN "True" ELSE "False"

\* a validator that accepts the HMAC under the empty key
validate_github_signature_open(body, signature, secret) ==
    IF signature = EmptyStr THEN "False"
    ELSE compare_digest(Sha256Prefixed(HexDigest(secret, body)), signature)

validate_github_signature(body, signature, secret) ==
    IF secret = "" THEN "False"
    ELSE IF signature = EmptyStr THEN "False"
    ELSE compare_digest(Sha256Prefixed(HexDigest(secret, body)), signature)

validate_sentry_signature(body, signature, secret) ==
    IF secret = "" THEN "False"
    ELSE IF signature = EmptyStr THEN "False"
    ELSE compare_digest(HexDigest(secret, body), signature)

validate_generic_secret(provided, configured) ==
    IF configured = "" THEN "False"
    ELSE IF provided = EmptyStr THEN "False"
    ELSE compare_digest(provided, Str(configured))

\* names are sequences of characters; str.lower() on the letters in use
UpperToLower == ("G" :> "g") @@ ("H" :> "h") @@ ("S" :> "s")

Lower(name) ==
    [i \in DOMAIN name |->
        IF name[i] \in DOMAIN UpperToLower THEN UpperToLower[name[i]] ELSE name[i]]

\* `sub in name`
Contains(name, sub) ==
    \E i \in 1..(Len(name) - Len(sub) + 1) : SubSeq(name, i, i + Len(sub) - 1) = sub

GITHUB == <<"g", "i", "t", "h", "u", "b">>

SENTRY == <<"s", "e", "n", "t", "r", "y">>

\* a path is [slash, rest]: whether it starts with "/" and what follows
Path(rest) == [slash |-> TRUE, rest |-> rest]

Secret == "gh-secret"

\* WebhooksConfig.endpoints: three endpoints with a secret and three without
endpoints ==
    << [name |-> GITHUB, path |-> Path("webhooks/github"),
        secret |-> Secret, channel |-> "dev"],
       [name |-> <<"S", "e", "n", "t", "r", "y">>,
        path |-> [slash |-> FALSE, rest |-> "webhooks/sentry"],
        secret |-> Secret, channel |-> "ops"],
       [name |-> <<"d", "e", "p", "l", "o", "y">>, path |-> Path("webhooks/deploy"),
        secret |-> Secret, channel |-> "dev"],
       [name |-> <<"m", "y", "G", "i", "t", "H", "u", "b">>, path |-> Path("webhooks/gh2"),
        secret |-> "", channel |-> "dev"],
       [name |-> <<"s", "e", "n", "t", "r", "y", "2">>, path |-> Path("webhooks/sentry2"),
        secret |-> "", channel |-> "ops"],
       [name |-> <<"c", "i">>, path |-> Path("webhooks/ci"),
        secret |-> "", channel |-> "dev"] >>

NoEndpoint == 0

\* _find_endpoint: the first endpoint whose path, with a leading "/", is
\* the request's path
EpPath(endpoint) ==
    IF endpoint.path.slash THEN endpoint.path ELSE Path(endpoint.path.rest)

FindEndpoint(path) ==
    LET found == {i \in DOMAIN endpoints : EpPath(endpoints[i]) = path}
    IN  IF found = {} THEN NoEndpoint
        ELSE CHOOSE i \in found : \A j \in found : i <= j

\* request bodies and what json.loads makes of them
Bodies == {"not json", "{}", "[]"}

JsonLoads(body) ==
    CASE body = "{}" -> [ok |-> TRUE, type |-> "dict"]
      [] body = "[]" -> [ok |-> TRUE, type |-> "list"]
      [] OTHER -> [ok |-> FALSE, type |-> "none"]

\* a header of a request: sent or not, and its value
NotSent == [sent |-> FALSE, value |-> EmptyStr]

Sent(value) == [sent |-> TRUE, value |-> value]

\* request.headers.get(name, default)
HeaderGet(header, default) == IF header.sent THEN header.value ELSE default

\* the values a signature or secret header is sent with
HeaderValues(body) ==
    {EmptyStr, Str(Secret), Str(NonAsciiText), Sha256Prefixed(Str("deadbeef"))}
      \cup {HexDigest(s, body) : s \in {"", Secret}}
      \cup {Sha256Prefixed(HexDigest(s, body)) : s \in {"", Secret}}

HeaderNames == {"X-Hub-Signature-256", "Sentry-Hook-Signature", "X-Webhook-Secret"}

\* a POST request: its path, its body and the headers the server reads
Request(path, body, name, header, authorization) ==
    [path |-> path, body |-> body,
     hub_signature |-> IF name = "X-Hub-Signature-256" THEN header ELSE NotSent,
     sentry_signature |-> IF name = "Sentry-Hook-Signature" THEN header ELSE NotSent,
     webhook_secret |-> IF name = "X-Webhook-Secret" THEN header ELSE NotSent,
     authorization |-> authorization]

RequestPaths == {EpPath(endpoints[i]) : i \in DOMAIN endpoints} \cup {Path("webhooks/unknown")}

Requests ==
    UNION {{Request(path, body, name, header, authorization) :
              name \in HeaderNames,
              header \in {NotSent} \cup {Sent(v) : v \in HeaderValues(body)},
              authorization \in {NotSent, Sent(Str(Secret))}} :
           path \in RequestPaths, body \in Bodies}

NoRequest == Request(Path(""), "", "", NotSent, NotSent)

\* WebhookServer._validate
Validate(endpoint, request) ==
    LET name == Lower(endpoint.name)
    IN  IF Contains(name, GITHUB)
        THEN validate_github_signature(request.body,
                 HeaderGet(request.hub_signature, EmptyStr), endpoint.secret)
        ELSE IF Contains(name, SENTRY)
        THEN validate_sentry_signature(request.body,
                 HeaderGet(request.sentry_signature, EmptyStr), endpoint.secret)
        ELSE validate_generic_secret(
                 HeaderGet(request.webhook_secret,
                           HeaderGet(request.authorization, EmptyStr)),
                 endpoint.secret)

\* WebhookServer._normalize: payload.get raises AttributeError unless the
\* payload is a dict; otherwise the source tag of the endpoint's kind
Normalize(endpoint, payload) ==
    LET name == Lower(endpoint.name)
    IN  IF payload.type # "dict" THEN "AttributeError"
        ELSE IF Contains(name, GITHUB) THEN "github"
        ELSE IF Contains(name, SENTRY) THEN "sentry"
        ELSE "generic"

\* _handle_webhook up to its call of publish: the status it answers with,
\* or 200 and the source of the event it goes on to publish; an exception
\* that leaves the handler is answered 500 by the web framework
HandleOutcome(request) ==
    LET e == FindEndpoint(request.path)
        payload == JsonLoads(request.body)
    IN  IF e = NoEndpoint THEN [status |-> 404, source |-> ""]
        ELSE IF ~payload.ok THEN [status |-> 400, source |-> ""]
        ELSE LET valid == Validate(endpoints[e], request)
             IN  IF valid = "TypeError" THEN [status |-> 500, source |-> ""]
                 ELSE IF valid = "False" THEN [status |-> 401, source |-> ""]
                 ELSE LET source == Normalize(endpoints[e], payload)
                      IN  IF source = "AttributeError"
                          THEN [status |-> 500, source |-> ""]
                          ELSE [status |-> 200, source |-> source]

\* a request arrives and _handle_webhook runs to its response, or to the
\* suspension of publish at a full queue
HandleWebhook(request) ==
    /\ wh_pc = "idle"
    /\ bus_next_id <= MaxEvents
    /\ wh_req' = request
    /\ LET h == HandleOutcome(request)
       IN  IF h.status = 200
           THEN LET ev == [kind |-> WEBHOOK_RECEIVED, id |-> bus_next_id]
                    r == PublishRun(bus_queue, ev, 1)
                IN  /\ bus_queue' = r.queues
                    /\ bus_next_id' = bus_next_id + 1
                    /\ wh_ev' = ev.id
                    /\ IF r.next = 0
                       THEN /\ wh_pc' = "answered"
                            /\ wh_status' = 200
                            /\ bus_pubs' = bus_pubs
                       ELSE /\ wh_pc' = "publishing"
                            /\ wh_status' = 0
                            /\ bus_pubs' = bus_pubs \cup {[ev |-> ev, next |-> r.next]}
           ELSE /\ wh_pc' = "answered"
                /\ wh_status' = h.status
                /\ wh_ev' = 0
                /\ UNCHANGED <<bus_queue, bus_next_id, bus_pubs>>
    /\ UNCHANGED <<bus_subs, bus_running, bus_tasks, bus_invoked, bus_raised>>

\* the suspended publish of the handler goes on; at its end the handler
\* answers 200
WebhookResume(p) ==
    /\ wh_pc = "publishing"
    /\ PublishResume(p)
    /\ IF p.ev.id = wh_ev /\ PublishRun(bus_queue, p.ev, p.next).next = 0
       THEN wh_pc' = "answered" /\ wh_status' = 200
       ELSE UNCHANGED <<wh_pc, wh_status>>
    /\ UNCHANGED <<wh_req, wh_ev>>

\* the response has gone out; the server is ready for the next request
WebhookDone ==
    /\ wh_pc = "answered"
    /\ wh_pc' = "idle"
    /\ wh_req' = NoRequest
    /\ wh_status' = 0
    /\ wh_ev' = 0
    /\ UNCHANGED busVars

\* ------------------------------------------------------------------------
\* Scheduler (shannon/core/scheduler.py)
\* ------------------------------------------------------------------------
\* seconds in a minute, the resolution of a cron expression
Minute == 60

\* asyncio.sleep(30) of the cron loop
CronSleep == 30

\* the cron expressions in use and the seconds between two of their ticks
CronExprs == {"*/1 * * * *", "*/2 * * * *"}

Period(cron_expr) ==
    CASE cron_expr = "*/1 * * * *" -> Minute
      [] cron_expr = "*/2 * * * *" -> 2 * Minute

\* croniter(cron_expr, base).get_next(): the first tick after base
NextTick(cron_expr, base) == ((base \div Period(cron_expr)) + 1) * Period(cron_expr)

\* a last_run column: NULL, or a time
Null == <<>>

\* a base that counts from the start of the clock when last_run is missing
CronBaseEpoch(last_run, t) == IF last_run = Null THEN 0 ELSE last_run[1]

\* `last_run or now`, the time croniter counts from
CronBase(last_run, t) == IF last_run = Null THEN t ELSE last_run[1]

\* `next_time <= now`, next_time computed from `last_run or now`
Due(cron_expr, last_run, t) == NextTick(cron_expr, CronBase(last_run, t)) <= t

\* the rows of `SELECT ... FROM jobs WHERE enabled = 1`, by id
RECURSIVE RowsFrom(_, _)
RowsFrom(jobs, id) ==
    IF id > MaxJobs THEN <<>>
    ELSE IF id \in DOMAIN jobs
    THEN <<[id |-> id, cron_expr |-> jobs[id].cron_expr, last_run |-> jobs[id].last_run]>>
            \o RowsFrom(jobs, id + 1)
    ELSE RowsFrom(jobs, id + 1)

\* the clock of the scheduler advances
CronTick ==
    /\ now < MaxCronTime
    /\ now' = now + CronStep
    /\ UNCHANGED schVars

\* add_job(name, cron_expr, action) with a new name
AddJob(cron_expr) ==
    /\ Cardinality(DOMAIN sch_jobs) < MaxJobs
    /\ LET id == Cardinality(DOMAIN sch_jobs) + 1
       IN  sch_jobs' = DictPut(sch_jobs, id, [cron_expr |-> cron_expr, last_run |-> Null])
    /\ UNCHANGED <<now, sch_pc, sch_rows, sch_iter_now, sch_wake, sch_iter, sch_fired,
                   sch_due>>

\* start(): the cron task is created and begins with an iteration
SchedStart ==
    /\ sch_pc = "stopped"
    /\ sch_pc' = "sleep"
    /\ sch_wake' = now
    /\ UNCHANGED <<now, sch_jobs, sch_rows, sch_iter_now, sch_iter, sch_fired, sch_due>>

\* stop(): the cron task is cancelled where it waits; what it has not
\* committed is lost
SchedStop ==
    /\ sch_pc # "stopped"
    /\ sch_pc' = "stopped"
    /\ sch_rows' = <<>>
    /\ UNCHANGED <<now, sch_jobs, sch_iter_now, sch_wake, sch_iter, sch_fired, sch_due>>

\* _cron_loop wakes up; _check_and_fire_jobs fetches the rows and reads now
CronWake ==
    /\ sch_pc = "sleep"
    /\ now >= sch_wake
    /\ sch_iter < MaxIters
    /\ sch_pc' = "rows"
    /\ sch_rows' = RowsFrom(sch_jobs, 1)
    /\ sch_iter_now' = now
    /\ sch_iter' = sch_iter + 1
    /\ sch_due' = {id \in DOMAIN sch_jobs :
                        Due(sch_jobs[id].cron_expr, sch_jobs[id].last_run, now)}
    /\ UNCHANGED <<now, sch_jobs, sch_wake, sch_fired>>

\* the loop body for the next row: a job that is due is published
CronCheck ==
    /\ sch_pc = "rows"
    /\ sch_rows # <<>>
    /\ LET row == Head(sch_rows)
       IN  IF Due(row.cron_expr, row.last_run, sch_iter_now)
           THEN /\ sch_fired' = Append(sch_fired,
                        [job |-> row.id, iter |-> sch_iter, at |-> sch_iter_now,
                         tick |-> NextTick(row.cron_expr,
                                           CronBase(row.last_run, sch_iter_now))])
                /\ sch_pc' = "write"
                /\ UNCHANGED sch_rows
           ELSE /\ sch_rows' = Tail(sch_rows)
                /\ UNCHANGED <<sch_pc, sch_fired>>
    /\ UNCHANGED <<now, sch_jobs, sch_iter_now, sch_wake, sch_iter, sch_due>>

\* UPDATE jobs SET last_run = now WHERE id = job_id, committed
JobsAfterUpdate(jobs, id, t) ==
    IF id \in DOMAIN jobs THEN [jobs EXCEPT ![id].last_run = <<t>>] ELSE jobs

\* the write of last_run after the publish
CronWrite ==
    /\ sch_pc = "write"
    /\ sch_jobs' = JobsAfterUpdate(sch_jobs, Head(sch_rows).id, sch_iter_now)
    /\ sch_rows' = Tail(sch_rows)
    /\ sch_pc' = "rows"
    /\ UNCHANGED <<now, sch_iter_now, sch_wake, sch_iter, sch_fired, sch_due>>

\* the write raises: _cron_loop logs the error and sleeps
CronWriteFails ==
    /\ sch_pc = "write"
    /\ sch_rows' = <<>>
    /\ sch_pc' = "sleep"
    /\ sch_wake' = now + CronSleep
    /\ UNCHANGED <<now, sch_jobs, sch_iter_now, sch_iter, sch_fired, sch_due>>

\* the rows are exhausted: the iteration ends and the loop sleeps
CronEnd ==
    /\ sch_pc = "rows"
    /\ sch_rows = <<>>
    /\ sch_pc' = "sleep"
    /\ sch_wake' = now + CronSleep
    /\ UNCHANGED <<now, sch_jobs, sch_rows, sch_iter_now, sch_iter, sch_fired, sch_due>>

\* a DELETE that leaves the row in the table
JobsAfterRemoveKeeps(jobs, id) == jobs

\* DELETE FROM jobs WHERE name = ?, committed; every row has its own name
JobsAfterRemove(jobs, id) == DictRemove(jobs, id)

\* remove_job(name) for the name of row `id`, at any point of the cron loop
RemoveJob(id) ==
    /\ id \in DOMAIN sch_jobs
    /\ sch_jobs' = JobsAfterRemove(sch_jobs, id)
    /\ sch_removed' = DictPut(sch_removed, id,
                          [iter |-> sch_iter,
                           listed |-> (sch_pc \in {"rows", "write"}
                                       /\ \E i \in DOMAIN sch_rows : sch_rows[i].id = id),
                           fired |-> Len(SelectSeq(sch_fired, LAMBDA f : f.job = id))])
    /\ UNCHANGED <<now, sch_pc, sch_rows, sch_iter_now, sch_wake, sch_iter, sch_fired,
                   sch_due>>

\* ------------------------------------------------------------------------
\* Pause gate (shannon/core/pause.py) and the consumers behind it
\* ------------------------------------------------------------------------
MESSAGE_INCOMING == "message.incoming"

SCHEDULER_TRIGGER == "scheduler.trigger"

\* the kinds of event that reach a consumer
GateKinds == {MESSAGE_INCOMING, SCHEDULER_TRIGGER, WEBHOOK_RECEIVED}

\* the kinds published by the scheduler and the webhook server
Autonomous == {SCHEDULER_TRIGGER, WEBHOOK_RECEIVED}

\* _resume_task is None
NoTask == 0

\* the durations given to pause(): None, and 0 and 30 seconds
NoDuration == <<>>

Durations == {NoDuration, <<0>>, <<30>>}

\* a queue_event that forgets the event
queue_event_lost(queued, event) == queued

\* queue_event(event)
queue_event(queued, event) == Append(queued, event)

\* a call of the gate: the call, the last call of pause or resume, the
\* auto-resume task the last pause has created, whether the call before
\* that pause was resume(), and what resume and drain_queue returned
PmCall(op, gate_op, task, after_resume, count, events) ==
    [op |-> op, gate_op |-> gate_op, task |-> task, after_resume |-> after_resume,
     count |-> count, events |-> events]

\* a pause that cancels the task it replaces
TimersAfterPauseCancels(timers, task) == (timers \ {pm_resume_task}) \cup {task}

\* the pending auto-resume tasks after pause(d) has created `task`: the task
\* _resume_task held before is overwritten, not cancelled
TimersAfterPause(timers, task) == timers \cup {task}

\* pause(duration_seconds)
Pause(duration_seconds) ==
    /\ pm_paused' = TRUE
    /\ IF duration_seconds # NoDuration /\ duration_seconds[1] > 0
       THEN /\ pm_next_timer <= MaxTimers
            /\ pm_resume_task' = pm_next_timer
            /\ pm_timers' = TimersAfterPause(pm_timers, pm_next_timer)
            /\ pm_next_timer' = pm_next_timer + 1
       ELSE UNCHANGED <<pm_resume_task, pm_timers, pm_next_timer>>
    /\ UNCHANGED <<pm_queued, gate_next_id, gate_dispatched>>

\* the body of resume(), called while the tasks in `sleeping` still sleep
ResumeBody(sleeping, running) ==
    /\ IF pm_resume_task # NoTask /\ pm_resume_task \in sleeping \cup running
       THEN /\ pm_timers' = sleeping \ {pm_resume_task}
            /\ pm_resume_task' = NoTask
       ELSE /\ pm_timers' = sleeping
            /\ UNCHANGED pm_resume_task
    /\ pm_paused' = FALSE

\* resume()
Resume ==
    /\ ResumeBody(pm_timers, {})
    /\ UNCHANGED <<pm_queued, pm_next_timer, gate_next_id, gate_dispatched>>

\* _auto_resume(seconds): the sleep of a task ends and it calls resume()
AutoResume(task) ==
    /\ task \in pm_timers
    /\ ResumeBody(pm_timers \ {task}, {task})
    /\ UNCHANGED <<pm_queued, pm_next_timer, gate_next_id, gate_dispatched>>

\* drain_queue()
DrainQueue ==
    /\ pm_queued # <<>>
    /\ pm_queued' = <<>>
    /\ UNCHANGED <<pm_paused, pm_resume_task, pm_timers, pm_next_timer,
                   gate_next_id, gate_dispatched>>

\* the consumer of scheduler.trigger and webhook.received events: it reads
\* the pause state before dispatch and routes the event through queue_event
\* while paused
ConsumeAutonomous(kind) ==
    /\ kind \in Autonomous
    /\ gate_next_id <= MaxGateEvents
    /\ gate_next_id' = gate_next_id + 1
    /\ IF pm_paused
       THEN /\ pm_queued' = queue_event(pm_queued, [kind |-> kind, id |-> gate_next_id])
            /\ UNCHANGED gate_dispatched
       ELSE /\ gate_dispatched' = Append(gate_dispatched,
                    [kind |-> kind, id |-> gate_next_id, paused |-> pm_paused])
            /\ UNCHANGED pm_queued
    /\ UNCHANGED <<pm_paused, pm_resume_task, pm_timers, pm_next_timer>>

\* MessagePipeline.handle is called with a message.incoming event
PipelineHandle ==
    /\ gate_next_id <= MaxGateEvents
    /\ gate_next_id' = gate_next_id + 1
    /\ gate_dispatched' = Append(gate_dispatched,
            [kind |-> MESSAGE_INCOMING, id |-> gate_next_id, paused |-> pm_paused])
    /\ UNCHANGED <<pm_paused, pm_queued, pm_resume_task, pm_timers, pm_next_timer>>

\* the calls of pause, resume and drain_queue with what they return
PauseCall(duration_seconds) ==
    /\ Pause(duration_seconds)
    /\ pm_last' = PmCall("pause", "pause",
                         IF pm_next_timer' > pm_next_timer THEN pm_next_timer ELSE NoTask,
                         pm_last.gate_op = "resume", 0, <<>>)

ResumeCall ==
    /\ Resume
    /\ pm_last' = PmCall("resume", "resume", NoTask, FALSE, Len(pm_queued), <<>>)

DrainQueueCall ==
    /\ DrainQueue
    /\ pm_last' = PmCall("drain_queue", pm_last.gate_op, pm_last.task,
                         pm_last.after_resume, 0, pm_queued)

\* ------------------------------------------------------------------------
\* PlanEngine.execute_plan (shannon/planner/engine.py)
\* ------------------------------------------------------------------------
MAX_TOOL_INVOCATIONS == 15

\* a step without a tool: `if step.tool` is false
NoTool == ""

\* the tools a step of a short plan may name
StepTools == {NoTool, "shell", "nope"}

\* the answers _handle_failure may return
Verdicts == {"retry", "skip", "abort"}

\* the user levels execute_plan is called with: below and at the level the
\* shell tool requires
PlanLevels == {TRUSTED, OPERATOR}

\* the subsets of S with at most k elements
RECURSIVE SetsUpTo(_, _)
SetsUpTo(S, k) ==
    IF k = 0 THEN {{}}
    ELSE LET smaller == SetsUpTo(S, k - 1)
         IN  smaller \cup {p \cup {a} : p \in smaller, a \in S}

\* the steps of a new plan with the given tools
NewSteps(tools) ==
    [i \in 1..Len(tools) |-> [tool |-> tools[i], status |-> "pending", error |-> ""]]

\* a cap that lets one invocation too many through
CapReachedLate(n) == n > MAX_TOOL_INVOCATIONS

\* `tool_invocations >= MAX_TOOL_INVOCATIONS`
CapReached(n) == n >= MAX_TOOL_INVOCATIONS

\* `if action == "abort"`
Aborts(action) == action = "abort"

\* a step left running after its failure
StatusAfterFailureRunning(action) == IF action = "skip" THEN "skipped" ELSE "running"

\* the status of a failed step once its verdict is handled
StatusAfterFailure(action) == IF action = "skip" THEN "skipped" ELSE "failed"

\* execute_plan(plan, user_level) is called with a plan whose steps are
\* pending
ExecutePlan(tools, fails, level) ==
    /\ plan_pc = "idle"
    /\ plan_pc' = "loop"
    /\ plan_status' = "executing"
    /\ plan_steps' = NewSteps(tools)
    /\ plan_i' = 1
    /\ plan_level' = level
    /\ plan_fails' = fails
    /\ tool_invocations' = 0
    /\ plan_started' = <<>>
    /\ plan_executed' = <<>>
    /\ plan_verdicts' = <<>>

\* the loop is at a step
AtStep == plan_pc = "loop" /\ plan_i <= Len(plan_steps)

\* the cap is reached: the step is skipped
PlanSkipAtCap ==
    /\ AtStep
    /\ CapReached(tool_invocations)
    /\ plan_steps' = [plan_steps EXCEPT ![plan_i].status = "skipped",
                                        ![plan_i].error = "Tool invocation cap reached"]
    /\ plan_i' = plan_i + 1
    /\ UNCHANGED <<plan_pc, plan_status, plan_level, plan_fails, tool_invocations,
                   plan_started, plan_executed, plan_verdicts>>

\* what follows a failure of the step at plan_i with the given verdict
AfterFailure(error, action) ==
    /\ plan_verdicts' = Append(plan_verdicts, [step |-> plan_i, action |-> action])
    /\ plan_steps' = [plan_steps EXCEPT ![plan_i].status = StatusAfterFailure(action),
                                        ![plan_i].error = error]
    /\ IF Aborts(action)
       THEN /\ plan_status' = "failed"
            /\ plan_pc' = "finish"
            /\ UNCHANGED plan_i
       ELSE /\ plan_i' = plan_i + 1
            /\ UNCHANGED <<plan_status, plan_pc>>

\* the step names a tool that is unknown or above the user's level
PlanStepRefused(action) ==
    /\ AtStep
    /\ ~CapReached(tool_invocations)
    /\ plan_steps[plan_i].tool # NoTool
    /\ IF plan_steps[plan_i].tool \in DOMAIN tool_map
       THEN plan_level < tool_map[plan_steps[plan_i].tool]
       ELSE TRUE
    /\ plan_started' = Append(plan_started, plan_i)
    /\ AfterFailure(IF plan_steps[plan_i].tool \notin DOMAIN tool_map
                    THEN "Unknown tool" ELSE "Permission denied", action)
    /\ UNCHANGED <<plan_level, plan_fails, tool_invocations, plan_executed>>

\* whether the step at plan_i gets its tool executed
Permitted ==
    /\ plan_steps[plan_i].tool \in DOMAIN tool_map
    /\ plan_level >= tool_map[plan_steps[plan_i].tool]

\* the tool of the step is executed and reports success
PlanToolDone ==
    /\ AtStep
    /\ ~CapReached(tool_invocations)
    /\ Permitted
    /\ plan_i \notin plan_fails
    /\ plan_started' = Append(plan_started, plan_i)
    /\ plan_executed' = Append(plan_executed, plan_i)
    /\ tool_invocations' = tool_invocations + 1
    /\ plan_steps' = [plan_steps EXCEPT ![plan_i].status = "done"]
    /\ plan_i' = plan_i + 1
    /\ UNCHANGED <<plan_pc, plan_status, plan_level, plan_fails, plan_verdicts>>

\* the tool of the step is executed and reports failure
PlanToolFails(action) ==
    /\ AtStep
    /\ ~CapReached(tool_invocations)
    /\ Permitted
    /\ plan_i \in plan_fails
    /\ plan_started' = Append(plan_started, plan_i)
    /\ plan_executed' = Append(plan_executed, plan_i)
    /\ tool_invocations' = tool_invocations + 1
    /\ AfterFailure("error", action)
    /\ UNCHANGED <<plan_level, plan_fails>>

\* a step without a tool: the provider is asked and the step is done
PlanReasoningStep ==
    /\ AtStep
    /\ ~CapReached(tool_invocations)
    /\ plan_steps[plan_i].tool = NoTool
    /\ plan_started' = Append(plan_started, plan_i)
    /\ plan_steps' = [plan_steps EXCEPT ![plan_i].status = "done"]
    /\ plan_i' = plan_i + 1
    /\ UNCHANGED <<plan_pc, plan_status, plan_level, plan_fails, tool_invocations,
                   plan_executed, plan_verdicts>>

\* save_plan, tool.execute or the provider call of the step raises: the
\* exception leaves execute_plan with the step running
PlanStepRaises ==
    /\ AtStep
    /\ ~CapReached(tool_invocations)
    /\ plan_started' = Append(plan_started, plan_i)
    /\ plan_steps' = [plan_steps EXCEPT ![plan_i].status = "running"]
    /\ plan_pc' = "raised"
    /\ UNCHANGED <<plan_status, plan_i, plan_level, plan_fails, tool_invocations,
                   plan_executed, plan_verdicts>>

\* a final status that forgets the abort
FinalStatusCompleted(status) == "completed"

\* `if plan.status != "failed": plan.status = "completed"`
FinalStatus(status) == IF status # "failed" THEN "completed" ELSE status

\* the loop is over or was left by break: the plan is saved and returned
PlanReturn ==
    /\ \/ plan_pc = "finish"
       \/ plan_pc = "loop" /\ plan_i > Len(plan_steps)
    /\ plan_status' = FinalStatus(plan_status)
    /\ plan_pc' = "returned"
    /\ UNCHANGED <<plan_steps, plan_i, plan_level, plan_fails, tool_invocations,
                   plan_started, plan_executed, plan_verdicts>>

\* the plans of up to MaxSteps steps
ShortPlans == SeqsUpTo(StepTools, 1, MaxSteps)

\* the plan of shell steps that is longer than the cap
LongPlan == [i \in 1..(MAX_TOOL_INVOCATIONS + MaxOver) |-> "shell"]

\* ------------------------------------------------------------------------
\* PlanEngine.create_plan (planner/engine.py)
\* ------------------------------------------------------------------------
MAX_STEPS == 8

\* The text of a provider response, as the pieces _parse_steps tells apart:
\* the fence ```, the word json, and runs of other text.  A run of other
\* text is either a JSON document (given by its value) or not JSON at all.
Fence == [t |-> "fence"]
WordJson == [t |-> "json"]
NotJson == [t |-> "text"]

\* JSON values
JNull == [t |-> "null"]
JNumber == [t |-> "number"]
JString(chars) == [t |-> "string", chars |-> chars]
JArray(items) == [t |-> "array", items |-> items]
\* an object is given by its "steps", "description" and "tool" members;
\* Absent stands for a member the object does not have
Absent == [t |-> "absent"]
JObject(steps, description, tool) ==
    [t |-> "object", steps |-> steps, description |-> description, tool |-> tool]

\* Python's None is what JSON's null is loaded as
None == JNull

\* one raw step as the prompt asks for it
RawStep(description, tool) == JObject(Absent, description, tool)

RawTools == {JString(<<"shell">>), JString(<<"null">>), JNull, Absent}
RawDescriptions == {JString(<<"List files">>), Absent}
RawSteps == {RawStep(d, tool) : d \in RawDescriptions, tool \in RawTools}

\* what a list of steps may hold: two raw steps, a string and a number
ListItems ==
    {RawStep(JString(<<"List files">>), JString(<<"shell">>)), RawStep(Absent, JNull),
     JString(<<"x">>), JNumber}

\* lists of n equal raw steps, up to more than MAX_STEPS, and short lists of
\* anything
UniformLists ==
    {[i \in 1..n |-> RawStep(JString(<<"List files">>), JString(<<"shell">>))] :
        n \in 0..(MAX_STEPS + MaxOver)}

ShortLists == SeqsUpTo(ListItems, 1, MaxRawLen) \cup {<<raw>> : raw \in RawSteps}

\* the documents a provider may answer with
Documents ==
    {JObject(JArray(items), Absent, Absent) : items \in UniformLists \cup ShortLists}
        \cup {JObject(v, Absent, Absent) :
                v \in {Absent, JNull, JNumber, JString(<<>>), JString(<<"a", "b">>),
                       JObject(Absent, Absent, Absent)}}
        \cup {JArray(<<>>), JArray(<<RawStep(Absent, Absent)>>),
              JString(<<"steps">>), JNumber, JNull}

\* the documents that are also tried inside fences and prose
FencedDocuments ==
    {JObject(JArray(<<RawStep(JString(<<"List files">>), JString(<<"shell">>)),
                      RawStep(Absent, JNull)>>), Absent, Absent),
     JObject(Absent, Absent, Absent), JArray(<<>>)}

\* the provider's answers: a bare document, a document wrapped in fences
\* and prose, and texts without any document
Contents ==
    {<<d>> : d \in Documents}
        \cup UNION {{<<Fence, d, Fence>>, <<Fence, WordJson, d, Fence>>,
                     <<NotJson, Fence, WordJson, d, Fence, NotJson>>,
                     <<Fence, WordJson, d>>, <<NotJson, d>>} : d \in FencedDocuments}
        \cup {<<>>, <<NotJson>>, <<Fence>>, <<Fence, Fence>>, <<WordJson>>}

\* text.index("```", start): the first fence at or after start, 0 if none
RECURSIVE IndexOfFence(_, _)
IndexOfFence(text, start) ==
    IF start > Len(text) THEN 0
    ELSE IF text[start] = Fence THEN start
    ELSE IndexOfFence(text, start + 1)

Raised(error) == [raised |-> TRUE, error |-> error, value |-> None]
Returned(value) == [raised |-> FALSE, error |-> "", value |-> value]

\* the text between the first fence and the next one, after a leading json
Unfence(text) ==
    LET first == IndexOfFence(text, 1)
        start == IF first < Len(text) /\ text[first + 1] = WordJson
                 THEN first + 2 ELSE first + 1
        end == IndexOfFence(text, start)
    IN  IF first = 0 THEN Returned(text)
        ELSE IF end = 0 THEN Raised("ValueError")
        ELSE Returned(SubSeq(text, start, end - 1))

IsJson(piece) == piece.t \in {"null", "number", "string", "array", "object"}

\* json.loads: the text must be one JSON document
JsonLoadsText(text) ==
    IF Len(text) = 1 /\ IsJson(text[1]) THEN Returned(text[1])
    ELSE Raised("JSONDecodeError")

\* data.get("steps", []), raw.get(...): only a dict has get
HasGet(value) == value.t = "object"

Min2(a, b) == IF a < b THEN a ELSE b

\* raw_steps[:MAX_STEPS]
Slice(value) ==
    IF value.t = "array" THEN Returned(SubSeq(value.items, 1, Min2(Len(value.items), MAX_STEPS)))
    ELSE IF value.t = "string"
    THEN Returned([i \in 1..Min2(Len(value.chars), MAX_STEPS) |-> JString(<<value.chars[i]>>)])
    ELSE Raised("TypeError")

FallbackSteps == <<[id |-> 1, description |-> JString(<<"Execute the goal directly">>), tool |-> None]>>

DefaultDescription(i) == JString(<<"Step ", ToString(i)>>)

PlanStepOf(raw, i) ==
    [id |-> i,
     description |-> IF raw.description = Absent THEN DefaultDescription(i)
                     ELSE raw.description,
     tool |-> IF raw.tool \in {JString(<<"null">>), JNull, Absent} THEN None ELSE raw.tool]

\* the exceptions _parse_steps turns into the fallback step
Caught == {"JSONDecodeError", "ValueError", "KeyError"}

\* _parse_steps
parse_steps(content) ==
    LET text == Unfence(content)
        data == IF text.raised THEN text ELSE JsonLoadsText(text.value)
        raw_steps ==
            IF data.raised THEN data
            ELSE IF ~HasGet(data.value) THEN Raised("AttributeError")
            ELSE IF data.value.steps = Absent THEN Returned(JArray(<<>>))
            ELSE Returned(data.value.steps)
        sliced == IF raw_steps.raised THEN raw_steps ELSE Slice(raw_steps.value)
    IN  IF raw_steps.raised
        THEN IF raw_steps.error \in Caught THEN Returned(FallbackSteps) ELSE raw_steps
        ELSE IF sliced.raised THEN sliced
        ELSE IF \E i \in DOMAIN sliced.value : ~HasGet(sliced.value[i])
        THEN Raised("AttributeError")
        ELSE IF sliced.value = <<>> THEN Returned(FallbackSteps)
        ELSE Returned([i \in DOMAIN sliced.value |-> PlanStepOf(sliced.value[i], i)])

NoPlan == [id |-> 0, status |-> "", steps |-> <<>>]

\* create_plan with the provider answering content
CreatePlan(content) ==
    LET steps == parse_steps(content)
        plan == [id |-> cp_next_id, status |-> "planning", steps |-> steps.value]
    IN  /\ cp_next_id <= MaxPlans
        /\ IF steps.raised
           THEN /\ cp_last' = [content |-> content, outcome |-> steps.error, plan |-> NoPlan]
                /\ UNCHANGED <<cp_db, cp_next_id>>
           ELSE /\ cp_db' = DictPut(cp_db, plan.id, plan)
                /\ cp_next_id' = cp_next_id + 1
                /\ cp_last' = [content |-> content, outcome |-> "returned", plan |-> plan]

\* create_plan when the provider call raises
CreatePlanProviderRaises ==
    /\ cp_next_id <= MaxPlans
    /\ cp_last' = [content |-> <<>>, outcome |-> "ProviderError", plan |-> NoPlan]
    /\ UNCHANGED <<cp_db, cp_next_id>>

\* ------------------------------------------------------------------------
\* ContextManager (core/context.py)
\* ------------------------------------------------------------------------
\* (platform, channel) pairs
Channels == {<<"discord", "c1">>, <<"discord", "c2">>}

\* what count_tokens gives for the content of a stored message: a content
\* is given by its token count
TokenCounts == {1, max_context_tokens, max_context_tokens + 1}

\* what count_tokens gives for the bracketed summary message
SummaryTokens == 1..(max_context_tokens + 1)

\* the provider call of the summarization raised
Fails == 0

\* the rows of a channel, oldest first
RowsOf(rows, channel) == SelectSeq(rows, LAMBDA row : row.channel = channel)

\* ORDER BY timestamp DESC LIMIT max_messages, then reverse
LastRows(rows) ==
    IF Len(rows) <= max_messages THEN rows
    ELSE SubSeq(rows, Len(rows) - max_messages + 1, Len(rows))

\* LLMMessage(role, content) of a row; src is the row it was made from
MessageOf(row) == [role |-> row.role, tokens |-> row.tokens, src |-> row.id]

\* the message that carries the summary
SummaryMsg(tokens) == [role |-> "user", tokens |-> tokens, src |-> 0]

RECURSIVE TotalTokens(_)
\* _total_tokens
TotalTokens(messages) ==
    IF messages = <<>> THEN 0
    ELSE Head(messages).tokens + TotalTokens(Tail(messages))

\* the condition of the final trim loop
TrimGoesOn(messages) ==
    TotalTokens(messages) > max_context_tokens /\ Len(messages) > 1

RECURSIVE FinalTrim(_)
\* while total > budget and len(messages) > 1: messages.pop(0)
FinalTrim(messages) ==
    IF TrimGoesOn(messages) THEN FinalTrim(Tail(messages)) ELSE messages

\* _fit_to_token_limit; summary is the token count of the summary message,
\* or Fails
fit_to_token_limit(messages, summary) ==
    LET split_point == Len(messages) \div 2
        recent_messages == SubSeq(messages, split_point + 1, Len(messages))
    IN  IF TotalTokens(messages) <= max_context_tokens THEN messages
        ELSE IF summary = Fails THEN FinalTrim(recent_messages)
        ELSE FinalTrim(<<SummaryMsg(summary)>> \o recent_messages)

\* add_message
AddMessage(channel, tokens) ==
    /\ ctx_next_id <= MaxRows
    /\ ctx_rows' = Append(ctx_rows, [id |-> ctx_next_id, channel |-> channel,
                                     role |-> "user", tokens |-> tokens])
    /\ ctx_next_id' = ctx_next_id + 1
    /\ ctx_last' = [op |-> "add_message", channel |-> channel, messages |-> <<>>,
                    count |-> 0]
    /\ UNCHANGED ctx_llm

\* the messages get_context reads from the table
Fetched(channel) ==
    LET rows == LastRows(RowsOf(ctx_rows, channel))
    IN  [i \in DOMAIN rows |-> MessageOf(rows[i])]

\* get_context
GetContext(channel, summary) ==
    /\ ctx_last' = [op |-> "get_context", channel |-> channel,
                    messages |-> IF ctx_llm /\ Fetched(channel) # <<>>
                                 THEN fit_to_token_limit(Fetched(channel), summary)
                                 ELSE Fetched(channel),
                    count |-> 0]
    /\ UNCHANGED <<ctx_rows, ctx_next_id, ctx_llm>>

\* summarize: the summary, or None
Summarize(channel, summary) ==
    /\ ctx_last' = [op |-> "summarize", channel |-> channel, messages |-> <<>>,
                    count |-> IF ctx_llm /\ RowsOf(ctx_rows, channel) # <<>>
                              THEN summary ELSE Fails]
    /\ UNCHANGED <<ctx_rows, ctx_next_id, ctx_llm>>

\* forget deletes the rows of another channel as well
RowsAfterForgetAll(rows, channel) == <<>>

\* DELETE FROM messages WHERE platform = ? AND channel = ?
RowsAfterForget(rows, channel) == SelectSeq(rows, LAMBDA row : row.channel # channel)

\* forget
Forget(channel) ==
    /\ ctx_rows' = RowsAfterForget(ctx_rows, channel)
    /\ ctx_last' = [op |-> "forget", channel |-> channel, messages |-> <<>>,
                    count |-> Len(RowsOf(ctx_rows, channel))]
    /\ UNCHANGED <<ctx_next_id, ctx_llm>>

\* get_stats
GetStats(channel) ==
    /\ ctx_last' = [op |-> "get_stats", channel |-> channel, messages |-> <<>>,
                    count |-> Len(RowsOf(ctx_rows, channel))]
    /\ UNCHANGED <<ctx_rows, ctx_next_id, ctx_llm>>

\* ------------------------------------------------------------------------
\* MessageHandler.handle (core/pipeline.py)
\* ------------------------------------------------------------------------
\* message contents, as sequences of pieces
Hello == <<"hello">>
SlashHelp == <<"/", "help">>
MsgContents == {Hello, SlashHelp}

\* content.startswith("/")
StartsWithSlash(content) == content # <<>> /\ content[1] = "/"

ChannelNames == {"c1", "c2"}
MessageIds == {"", "m1"}

\* IncomingMessage
IncomingMessages ==
    [key : Keys, channel : ChannelNames, content : MsgContents, message_id : MessageIds]

NoReplyTo == <<>>

\* msg.message_id or None
ReplyTo(message_id) == IF message_id = "" THEN NoReplyTo ELSE <<message_id>>

Apology == <<"You're sending messages too quickly. Please slow down.">>

\* f"[DRY RUN] Would process: {content[:100]}"
DryRunText(content) == <<"[DRY RUN] Would process: ">> \o content

\* the calls handle makes: _send, which publishes one MessageOutgoing,
\* commands.handle and context.add_message
SendCall(msg, content, reply_to) ==
    [op |-> "publish", kind |-> "message.outgoing", platform |-> msg.key[1],
     channel |-> msg.channel, role |-> "", content |-> content, reply_to |-> reply_to]

CommandCall(msg) ==
    [op |-> "commands.handle", kind |-> "", platform |-> msg.key[1],
     channel |-> msg.channel, role |-> "", content |-> msg.content, reply_to |-> NoReplyTo]

AddMessageCall(msg, role, content) ==
    [op |-> "add_message", kind |-> "", platform |-> msg.key[1],
     channel |-> msg.channel, role |-> role, content |-> content, reply_to |-> NoReplyTo]

\* a rejected message is handled like an accepted one after the apology
AfterRejectGoesOn(msg) ==
    /\ pl_pc' = "stored"
    /\ pl_effects' = <<SendCall(msg, Apology, NoReplyTo), AddMessageCall(msg, "user", msg.content)>>

\* the rate limiter said no: one apology, return
AfterReject(msg) ==
    /\ pl_pc' = "returned"
    /\ pl_effects' = <<SendCall(msg, Apology, NoReplyTo)>>

\* handle, from its start to its first return or to the stored user turn
PlHandle(msg) ==
    /\ pl_pc \in {"idle", "returned", "raised"}
    /\ CheckRateLimit(msg.key)
    /\ pl_msg' = [msg |-> msg, passed |-> rate_last'.ret]
    /\ IF ~rate_last'.ret THEN AfterReject(msg)
       ELSE IF StartsWithSlash(msg.content)
       THEN /\ pl_pc' = "returned"
            /\ pl_effects' = <<CommandCall(msg)>>
       ELSE /\ pl_pc' = "stored"
            /\ pl_effects' = <<AddMessageCall(msg, "user", msg.content)>>
    /\ UNCHANGED pl_dry_run

\* dry run: say what would be processed, return
PlDryRun ==
    /\ pl_pc = "stored"
    /\ pl_dry_run
    /\ pl_pc' = "returned"
    /\ pl_effects' = Append(pl_effects,
                            SendCall(pl_msg.msg, DryRunText(pl_msg.msg.content), NoReplyTo))
    /\ UNCHANGED <<pl_dry_run, pl_msg>>

\* the parameters get_context has after self, and the arguments handle
\* passes to it
GetContextParameters == <<"platform", "channel", "user_id">>
GetContextArguments == <<"platform", "channel">>

\* self._context.get_context(platform, channel): a call with a required
\* argument missing raises TypeError, and handle is left by it
PlGetContextRaises ==
    /\ pl_pc = "stored"
    /\ ~pl_dry_run
    /\ Len(GetContextArguments) < Len(GetContextParameters)
    /\ pl_pc' = "raised"
    /\ UNCHANGED <<pl_dry_run, pl_msg, pl_effects>>

\* no level read yet
NoLevel == 0 - 1

\* the messages of the user who can hold a grant, all in one channel
UserMessages ==
    {msg \in IncomingMessages :
        msg.key = UserKey /\ msg.channel = "c1" /\ msg.message_id = "m1"}

\* handle with its level lookup: for a message that is accepted and is no
\* slash command, `level = self._auth.get_level(platform, user_id)` comes
\* before the user turn is stored; a level under PUBLIC ends handle there
PlHandleAtLevel(msg) ==
    /\ pl_pc \in {"idle", "returned", "raised"}
    /\ CheckRateLimit(msg.key)
    /\ pl_msg' = [msg |-> msg, passed |-> rate_last'.ret]
    /\ IF ~rate_last'.ret
       THEN AfterReject(msg) /\ UNCHANGED <<sudoVars, pl_level>>
       ELSE IF StartsWithSlash(msg.content)
       THEN /\ pl_pc' = "returned"
            /\ pl_effects' = <<CommandCall(msg)>>
            /\ UNCHANGED <<sudoVars, pl_level>>
       ELSE /\ GetLevel(msg.key)
            /\ pl_level' = auth_last'.ret
            /\ IF auth_last'.ret < PUBLIC
               THEN pl_pc' = "returned" /\ pl_effects' = <<>>
               ELSE /\ pl_pc' = "stored"
                    /\ pl_effects' = <<AddMessageCall(msg, "user", msg.content)>>
    /\ UNCHANGED pl_dry_run

\* ------------------------------------------------------------------------
\* CommandHandler: /pause, /resume and /memory clear (core/commands.py)
\* ------------------------------------------------------------------------
\* the keys a memory tool may store
MemoryKeys == {"color"}

\* MemoryStore.set
MemorySet(key) ==
    /\ mem_keys' = mem_keys \cup {key}
    /\ UNCHANGED cmd_sent

\* send_fn(platform, channel, content)
SendFn(key, channel, content) == [platform |-> key[1], channel |-> channel, content |-> content]

OperatorRequired == <<"Operator access required.">>
AdminRequired == <<"Admin access required to clear memory.">>
PausedIndefinitely ==
    <<"Paused indefinitely. Use /resume to resume. I'll still respond to direct messages.">>
PausedFor(duration_seconds) ==
    <<"Paused for ", duration_seconds, ". I'll still respond if you message me directly.">>
Resumed(count) ==
    IF count # 0 THEN <<"Resumed. ", count, " queued event(s) were missed.">>
    ELSE <<"Resumed.">>
Cleared(count) == <<"Cleared ", count, " memories.">>

\* /pause asks for TRUSTED only
PauseRequiredTrusted == TRUSTED

\* the level _handle_pause and _handle_resume ask for
PauseRequired == OPERATOR

\* the level "/memory clear" asks for
ClearRequired == ADMIN

\* check_permission, as a command calls it: the grants it leaves behind
CommandCheck(key, required) ==
    /\ sudo_grants' = CheckPermissionRes(sudo_grants, key, required, now).grants
    /\ UNCHANGED <<now, pending_sudo, sudo_counter, auth_last, in_force>>

\* "/pause [<duration>]"
CmdPause(key, channel, duration_seconds) ==
    /\ CommandCheck(key, PauseRequired)
    /\ IF ~CheckPermissionRes(sudo_grants, key, PauseRequired, now).ok
       THEN /\ cmd_sent' = <<SendFn(key, channel, OperatorRequired)>>
            /\ UNCHANGED pmVars
       ELSE /\ Pause(duration_seconds)
            /\ cmd_sent' = <<SendFn(key, channel,
                                    IF duration_seconds # NoDuration /\ duration_seconds[1] # 0
                                    THEN PausedFor(duration_seconds)
                                    ELSE PausedIndefinitely)>>
    /\ UNCHANGED mem_keys

\* "/resume": resume(), then drain_queue()
CmdResume(key, channel) ==
    /\ CommandCheck(key, PauseRequired)
    /\ IF ~CheckPermissionRes(sudo_grants, key, PauseRequired, now).ok
       THEN /\ cmd_sent' = <<SendFn(key, channel, OperatorRequired)>>
            /\ UNCHANGED pmVars
       ELSE /\ ResumeBody(pm_timers, {})
            /\ pm_queued' = <<>>
            /\ cmd_sent' = <<SendFn(key, channel, Resumed(Len(pm_queued)))>>
            /\ UNCHANGED <<pm_next_timer, gate_next_id, gate_dispatched>>
    /\ UNCHANGED mem_keys

\* "/memory clear"
CmdMemoryClear(key, channel) ==
    /\ CommandCheck(key, ClearRequired)
    /\ IF ~CheckPermissionRes(sudo_grants, key, ClearRequired, now).ok
       THEN /\ cmd_sent' = <<SendFn(key, channel, AdminRequired)>>
            /\ UNCHANGED mem_keys
       ELSE /\ mem_keys' = {}
            /\ cmd_sent' = <<SendFn(key, channel, Cleared(Cardinality(mem_keys)))>>
    /\ UNCHANGED pmVars

\* ------------------------------------------------------------------------
\* The providers' retry loops (core/llm/anthropic.py, core/llm/local.py)
\* ------------------------------------------------------------------------
Providers == {"anthropic", "local"}

\* the default max_retries of _call_with_retry and of _post_with_retry
anthropic_max_retries == 3
local_max_retries == 2

max_retries(provider) ==
    IF provider = "anthropic" THEN anthropic_max_retries ELSE local_max_retries

\* what one attempt ends with: the response, an error that carries an HTTP
\* status, a connection error, or any other exception
Ok == [kind |-> "ok", status |-> 200]
StatusError(status) == [kind |-> "status", status |-> status]
ConnectError == [kind |-> "connect", status |-> 0]
OtherError == [kind |-> "other", status |-> 0]

\* status_code < 500 ends the loop
InternalServerError == 500

\* the statuses of the failed requests: a client error, the rate limit and
\* two server errors
Statuses == {400, 429, 500, 503}

Outcomes == {Ok, ConnectError, OtherError} \cup {StatusError(s) : s \in Statuses}

\* the SDK raises RateLimitError for the status 429
IsRateLimitError(outcome) == outcome.kind = "status" /\ outcome.status = 429

\* _call_with_retry: whether the loop sleeps and goes on after the outcome
\* of this attempt.  An APIError without a status (a connection error) does
\* not get past the test of its status_code.
AnthropicGoesOn(outcome, attempt) ==
    IF IsRateLimitError(outcome) THEN attempt # anthropic_max_retries
    ELSE IF outcome.kind = "status"
    THEN ~(attempt = anthropic_max_retries \/ outcome.status < InternalServerError)
    ELSE FALSE

\* _post_with_retry: the same for HTTPStatusError and ConnectError
LocalGoesOn(outcome, attempt) ==
    IF outcome.kind = "status"
    THEN ~(attempt = local_max_retries \/ outcome.status < InternalServerError)
    ELSE IF outcome.kind = "connect" THEN attempt # local_max_retries
    ELSE FALSE

GoesOn(provider, outcome, attempt) ==
    IF provider = "anthropic" THEN AnthropicGoesOn(outcome, attempt)
    ELSE LocalGoesOn(outcome, attempt)

RECURSIVE Pow2(_)
\* 2 ** attempt
Pow2(n) == IF n = 0 THEN 1 ELSE 2 * Pow2(n - 1)

\* random.uniform(0, 1), in tenths of a second
Jitters == {0, 5, 9}

\* wait = (2 ** attempt) + random.uniform(0, 1), in tenths of a second
Wait(attempt, jitter) == 10 * Pow2(attempt) + jitter

\* complete() enters the retry loop
RetryCall(provider) ==
    /\ rt_pc \in {"idle", "returned", "raised"}
    /\ rt_provider' = provider
    /\ rt_pc' = "trying"
    /\ rt_attempt' = 0
    /\ rt_log' = <<>>
    /\ rt_waits' = <<>>

\* one iteration of the loop: the request, and the sleep when it is retried
RetryAttempt(outcome, jitter) ==
    /\ rt_pc = "trying"
    /\ rt_log' = Append(rt_log, outcome)
    /\ IF outcome = Ok
       THEN /\ rt_pc' = "returned"
            /\ UNCHANGED <<rt_attempt, rt_waits>>
       ELSE IF GoesOn(rt_provider, outcome, rt_attempt)
       THEN /\ rt_waits' = Append(rt_waits, Wait(rt_attempt, jitter))
            /\ rt_attempt' = rt_attempt + 1
            /\ UNCHANGED rt_pc
       ELSE /\ rt_pc' = "raised"
            /\ UNCHANGED <<rt_attempt, rt_waits>>
    /\ UNCHANGED rt_provider

\* ------------------------------------------------------------------------
\* The orchestrator's start (main.py)
\* ------------------------------------------------------------------------
Transports == {"discord", "signal"}

\* settings.scheduler.enabled, settings.discord.token and
\* settings.signal.phone_number, each set or not
SettingsSet == [scheduler : BOOLEAN, discord : BOOLEAN, signal : BOOLEAN]

NoTasks == [t \in Transports |-> "none"]

\* the statement of start() that follows the one at pc
AfterStep(pc) ==
    CASE pc = "scheduler" -> "discord"
      [] pc = "discord" -> "signal"
      [] pc = "signal" -> "bus"
      [] pc = "bus" -> "ready"

\* whether the settings ask for the component of the statement at pc
Configured(pc) ==
    CASE pc = "scheduler" -> or_settings.scheduler
      [] pc = "discord" -> or_settings.discord
      [] pc = "signal" -> or_settings.signal
      [] pc = "bus" -> TRUE

\* Shannon(settings) and the first statements of start(): the context
\* database and the subscription of the message handler
OrchStart(settings) ==
    /\ or_pc = "new"
    /\ or_settings' = settings
    /\ or_pc' = "scheduler"
    /\ UNCHANGED <<or_transports, or_started, or_tasks, or_raised>>

\* an `if` of start() whose setting is empty
OrchSkip ==
    /\ or_pc \in {"scheduler", "discord", "signal"}
    /\ ~Configured(or_pc)
    /\ or_pc' = AfterStep(or_pc)
    /\ UNCHANGED <<or_settings, or_transports, or_started, or_tasks, or_raised>>

\* the transport is appended to self.transports before it is started
TransportsAfter(pc) ==
    IF pc \in Transports THEN Append(or_transports, pc) ELSE or_transports

\* the start() of the component at pc returns: the scheduler's and the
\* bus's, or a transport's, which has put its client or poller in a task
OrchStepReturns ==
    /\ or_pc \in {"scheduler", "discord", "signal", "bus"}
    /\ Configured(or_pc)
    /\ or_transports' = TransportsAfter(or_pc)
    /\ or_started' = or_started \cup {or_pc}
    /\ or_tasks' = IF or_pc \in Transports
                   THEN [or_tasks EXCEPT ![or_pc] = "running"]
                   ELSE or_tasks
    /\ or_pc' = AfterStep(or_pc)
    /\ UNCHANGED <<or_settings, or_raised>>

\* after an awaited start() that raised: start() has no try, so the
\* exception leaves it
PcAfterRaise(pc) == "raised"

\* the awaited start() of the scheduler (it opens its database) or of a
\* transport raises
OrchStepRaises ==
    /\ or_pc \in {"scheduler", "discord", "signal"}
    /\ Configured(or_pc)
    /\ or_transports' = TransportsAfter(or_pc)
    /\ or_raised' = or_pc
    /\ or_pc' = PcAfterRaise(or_pc)
    /\ UNCHANGED <<or_settings, or_started, or_tasks>>

\* the task of a started transport ends: the client has logged in, or its
\* coroutine has raised inside the task
TransportTaskEnds(t, outcome) ==
    /\ or_tasks[t] = "running"
    /\ or_tasks' = [or_tasks EXCEPT ![t] = outcome]
    /\ UNCHANGED <<or_pc, or_settings, or_transports, or_started, or_raised>>

\* ------------------------------------------------------------------------
\* The chunker (core/chunker.py).  A text is a sequence of characters.
\* ------------------------------------------------------------------------
NL == "\n"

\* the grave accent, and the fence of three of them
Backtick == "grave"
Backticks == <<Backtick, Backtick, Backtick>>

\* \s of the regular expressions, and the separators of str.split()
IsSpace(c) == c \in {" ", NL}

RECURSIVE LStrip(_)
LStrip(s) == IF s # <<>> /\ IsSpace(Head(s)) THEN LStrip(Tail(s)) ELSE s

RECURSIVE RStrip(_)
RStrip(s) ==
    IF s # <<>> /\ IsSpace(s[Len(s)]) THEN RStrip(SubSeq(s, 1, Len(s) - 1)) ELSE s

\* str.strip()
Strip(s) == RStrip(LStrip(s))

\* s[i:], with i counted from 1
From(s, i) == SubSeq(s, i, Len(s))

\* str.startswith
StartsWith(s, prefix) ==
    Len(s) >= Len(prefix) /\ SubSeq(s, 1, Len(prefix)) = prefix

RECURSIVE FindFence(_, _)
\* the index of the first ``` of s at or after i, or 0
FindFence(s, i) ==
    IF i + 2 > Len(s) THEN 0
    ELSE IF SubSeq(s, i, i + 2) = Backticks THEN i
    ELSE FindFence(s, i + 1)

RECURSIVE CodeBlockSplit(_)
\* _CODE_BLOCK_RE.split(text): prose, block, prose, ..., prose, where a
\* block goes from a ``` to the nearest ``` after it
CodeBlockSplit(s) ==
    LET open == FindFence(s, 1)
        close == IF open = 0 THEN 0 ELSE FindFence(s, open + 3)
    IN  IF close = 0 THEN <<s>>
        ELSE <<SubSeq(s, 1, open - 1), SubSeq(s, open, close + 2)>>
                 \o CodeBlockSplit(From(s, close + 3))

\* _split_preserving_code
split_preserving_code(text) ==
    SelectSeq(CodeBlockSplit(text), LAMBDA p : Strip(p) # <<>>)

RECURSIVE RunEnd(_, _, _)
\* the index of the last character of the run of characters of set C that
\* starts at i
RunEnd(s, i, C) ==
    IF i + 1 <= Len(s) /\ s[i + 1] \in C THEN RunEnd(s, i + 1, C) ELSE i

RECURSIVE ParagraphSplitFrom(_, _)
\* _PARAGRAPH_RE.split: the separators are the runs of two or more newlines;
\* i is the position the scan has reached
ParagraphSplitFrom(s, i) ==
    IF i + 1 > Len(s) THEN <<s>>
    ELSE IF s[i] = NL /\ s[i + 1] = NL
    THEN <<SubSeq(s, 1, i - 1)>> \o ParagraphSplitFrom(From(s, RunEnd(s, i, {NL}) + 1), 1)
    ELSE ParagraphSplitFrom(s, i + 1)

ParagraphSplit(s) == ParagraphSplitFrom(s, 1)

RECURSIVE SplitAfterFrom(_, _, _)
\* re.split of (?<=[marks])\s+ : the separators are the runs of whitespace
\* that follow a character of marks
SplitAfterFrom(s, i, marks) ==
    IF i + 1 > Len(s) THEN <<s>>
    ELSE IF s[i] \in marks /\ IsSpace(s[i + 1])
    THEN <<SubSeq(s, 1, i)>>
             \o SplitAfterFrom(From(s, RunEnd(s, i + 1, {" ", NL}) + 1), 1, marks)
    ELSE SplitAfterFrom(s, i + 1, marks)

\* _SENTENCE_RE.split and _CLAUSE_RE.split
SentenceSplit(s) == SplitAfterFrom(s, 1, {".", "!", "?"})
ClauseSplit(s) == SplitAfterFrom(s, 1, {",", ";", ":"})

RECURSIVE WordEnd(_, _)
\* the index of the last character of the word that starts at i
WordEnd(s, i) ==
    IF i + 1 <= Len(s) /\ ~IsSpace(s[i + 1]) THEN WordEnd(s, i + 1) ELSE i

RECURSIVE Words(_)
\* str.split()
Words(s) ==
    LET t == LStrip(s)
    IN  IF t = <<>> THEN <<>>
        ELSE <<SubSeq(t, 1, WordEnd(t, 1))>> \o Words(From(t, WordEnd(t, 1) + 1))

RECURSIVE LinesFrom(_, _)
\* str.split("\n")
LinesFrom(s, i) ==
    IF i > Len(s) THEN <<s>>
    ELSE IF s[i] = NL THEN <<SubSeq(s, 1, i - 1)>> \o LinesFrom(From(s, i + 1), 1)
    ELSE LinesFrom(s, i + 1)

Lines(s) == LinesFrom(s, 1)

RECURSIVE Join(_, _)
\* separator.join(parts)
Join(parts, separator) ==
    IF parts = <<>> THEN <<>>
    ELSE IF Len(parts) = 1 THEN parts[1]
    ELSE parts[1] \o separator \o Join(Tail(parts), separator)

\* sub[:-1] and sub[-1] if sub else ""
AllButLast(sub) == SubSeq(sub, 1, Len(sub) - 1)
LastOrEmpty(sub) == IF sub = <<>> THEN <<>> ELSE sub[Len(sub)]

\* chunks with current appended when it is not empty
Flush(chunks, current) == IF current # <<>> THEN Append(chunks, current) ELSE chunks

\* word if len(word) <= limit else word[:limit]
HardSlice(word, limit) == IF Len(word) <= limit THEN word ELSE SubSeq(word, 1, limit)

RECURSIVE SplitByWordsLoop(_, _, _, _)
SplitByWordsLoop(words, chunks, current, limit) ==
    IF words = <<>> THEN Flush(chunks, current)
    ELSE LET word == Head(words)
             candidate == IF current # <<>> THEN current \o <<" ">> \o word ELSE word
         IN  IF Len(candidate) <= limit
             THEN SplitByWordsLoop(Tail(words), chunks, candidate, limit)
             ELSE SplitByWordsLoop(Tail(words), Flush(chunks, current),
                                   HardSlice(word, limit), limit)

\* _split_by_words
split_by_words(text, limit) == SplitByWordsLoop(Words(text), <<>>, <<>>, limit)

RECURSIVE RecombineLoop(_, _, _, _, _)
RecombineLoop(parts, chunks, current, limit, separator) ==
    IF parts = <<>> THEN Flush(chunks, current)
    ELSE LET part == Head(parts)
             candidate == IF current # <<>> THEN current \o separator \o part ELSE part
             sub == split_by_words(part, limit)
         IN  IF Len(candidate) <= limit
             THEN RecombineLoop(Tail(parts), chunks, candidate, limit, separator)
             ELSE IF Len(part) <= limit
             THEN RecombineLoop(Tail(parts), Flush(chunks, current), part, limit, separator)
             ELSE RecombineLoop(Tail(parts), Flush(chunks, current) \o AllButLast(sub),
                                LastOrEmpty(sub), limit, separator)

\* _recombine
recombine(parts, limit, separator) == RecombineLoop(parts, <<>>, <<>>, limit, separator)

\* the chunks _split_prose makes of one paragraph
SplitPart(part, limit) ==
    IF Len(part) <= limit THEN <<part>>
    ELSE IF Len(SentenceSplit(part)) > 1 THEN recombine(SentenceSplit(part), limit, <<" ">>)
    ELSE IF Len(ClauseSplit(part)) > 1 THEN recombine(ClauseSplit(part), limit, <<" ">>)
    ELSE split_by_words(part, limit)

RECURSIVE SplitParts(_, _)
SplitParts(parts, limit) ==
    IF parts = <<>> THEN <<>>
    ELSE SplitPart(Head(parts), limit) \o SplitParts(Tail(parts), limit)

\* _split_prose
split_prose(text, limit) ==
    LET parts == ParagraphSplit(text)
    IN  IF (\A i \in DOMAIN parts : Len(parts[i]) <= limit) /\ Len(parts) > 1
        THEN recombine(parts, limit, <<NL, NL>>)
        ELSE SplitParts(parts, limit)

\* f"{opener}\n" + "\n".join(current_lines) + f"\n{closer}"
FencedBlock(opener, current_lines) ==
    opener \o <<NL>> \o Join(current_lines, <<NL>>) \o <<NL>> \o Backticks

RECURSIVE SplitCodeLoop(_, _, _, _, _, _)
SplitCodeLoop(inner_lines, chunks, current_lines, current_len, opener, max_inner) ==
    IF inner_lines = <<>>
    THEN IF current_lines # <<>> THEN Append(chunks, FencedBlock(opener, current_lines))
         ELSE chunks
    ELSE LET line == Head(inner_lines)
             line_len == Len(line) + 1
         IN  IF current_len + line_len > max_inner /\ current_lines # <<>>
             THEN SplitCodeLoop(Tail(inner_lines),
                                Append(chunks, FencedBlock(opener, current_lines)),
                                <<line>>, line_len, opener, max_inner)
             ELSE SplitCodeLoop(Tail(inner_lines), chunks, Append(current_lines, line),
                                current_len + line_len, opener, max_inner)

\* _split_code_block
split_code_block(block, limit) ==
    LET lines == Lines(block)
        opener == lines[1]
        inner_lines == IF Len(lines) >= 2 THEN SubSeq(lines, 2, Len(lines) - 1) ELSE <<>>
        overhead == Len(opener) + Len(Backticks) + 2
        chunks == SplitCodeLoop(inner_lines, <<>>, <<>>, 0, opener, limit - overhead)
    IN  IF chunks # <<>> THEN chunks ELSE <<block>>

RECURSIVE MergeLoop(_, _, _, _)
MergeLoop(chunks, merged, limit, min_size) ==
    IF chunks = <<>> THEN merged
    ELSE LET chunk == Head(chunks)
             last == merged[Len(merged)]
         IN  IF Len(last) < min_size /\ Len(last) + Len(chunk) + 1 <= limit
             THEN MergeLoop(Tail(chunks),
                            [merged EXCEPT ![Len(merged)] = last \o <<NL>> \o chunk],
                            limit, min_size)
             ELSE MergeLoop(Tail(chunks), Append(merged, chunk), limit, min_size)

\* _merge_short_chunks
merge_short_chunks(chunks, limit, min_size) ==
    IF chunks = <<>> THEN chunks
    ELSE MergeLoop(Tail(chunks), <<Head(chunks)>>, limit, min_size)

RECURSIVE SegmentLoop(_, _, _, _)
\* the loop of chunk_message over the segments
SegmentLoop(segments, chunks, current, limit) ==
    IF segments = <<>> THEN Flush(chunks, current)
    ELSE LET segment == Head(segments)
             is_code == StartsWith(segment, Backticks)
             sub_chunks == IF is_code THEN split_code_block(segment, limit)
                           ELSE split_prose(segment, limit)
         IN  IF Len(current) + Len(segment) + 1 <= limit
             THEN SegmentLoop(Tail(segments), chunks,
                              IF current # <<>> THEN Strip(current \o <<NL>> \o segment)
                              ELSE segment,
                              limit)
             ELSE IF Len(segment) <= limit
             THEN SegmentLoop(Tail(segments), Flush(chunks, current), segment, limit)
             ELSE SegmentLoop(Tail(segments), Flush(chunks, current) \o AllButLast(sub_chunks),
                              LastOrEmpty(sub_chunks), limit)

\* chunk_message(text, limit, config) with config.min_chunk_size = min_chunk
chunk_message(text, limit, min_chunk) ==
    IF Len(text) <= limit THEN <<text>>
    ELSE merge_short_chunks(SegmentLoop(split_preserving_code(text), <<>>, <<>>, limit),
                            limit, min_chunk)

\* the texts the transports hand over: up to MaxPieces pieces, each a
\* letter, a blank, a newline, a newline with a letter, a full stop with its
\* blank, a comma with its blank, or a code fence
Pieces == {<<"a">>, <<" ">>, <<NL>>, <<NL, "a">>, <<".", " ">>, <<",", " ">>, Backticks}

RECURSIVE Concat(_)
Concat(pieces) == IF pieces = <<>> THEN <<>> ELSE Head(pieces) \o Concat(Tail(pieces))

Texts == {Concat(pieces) : pieces \in SeqsUpTo(Pieces, 0, MaxPieces)}

\* the limits of the calls, none below the configured min_chunk_size: every
\* third one, counted down from MaxLimit
Limits == {limit \in min_chunk_size..MaxLimit : (MaxLimit - limit) % 3 = 0}

\* a transport calls chunk_message(text, limit, config)
ChunkMessage(text, limit) ==
    /\ ck_pc = "idle"
    /\ ck_text' = text
    /\ ck_limit' = limit
    /\ ck_chunks' = chunk_message(text, limit, min_chunk_size)
    /\ ck_pc' = "returned"

\* the transport has sent the chunks
ChunksSent ==
    /\ ck_pc = "returned"
    /\ ck_pc' = "idle"
    /\ ck_text' = <<>>
    /\ ck_limit' = min_chunk_size
    /\ ck_chunks' = <<>>

\* the wall clock advances
Tick ==
    /\ now < MaxTime
    /\ now' = now + ClockStep

NoOp == [op |-> "none", key |-> UserKey, rid |-> 0, ret |-> 0]

InitSudo ==
    /\ sudo_grants = EmptyDict
    /\ pending_sudo = EmptyDict
    /\ sudo_counter = 0
    /\ auth_last = NoOp
    /\ in_force = EmptyDict

InitRate ==
    /\ rate_log = [k \in Keys |-> <<>>]
    /\ rate_last = [key |-> UserKey, ret |-> TRUE]
    /\ accepted = [k \in Keys |-> <<>>]

InitExec ==
    /\ ex_pc = "idle"
    /\ ex_level = PUBLIC
    /\ ex_iter = 0
    /\ ex_messages = <<>>
    /\ ex_response = NoResponse
    /\ ex_idx = 0
    /\ ex_results = <<>>
    /\ ex_ret = ""
    /\ ex_calls = 0
    /\ ex_executed = {}
    /\ ex_passed = <<>>

InitBus ==
    /\ bus_subs = <<>>
    /\ bus_queue = <<>>
    /\ bus_running = FALSE
    /\ bus_tasks = <<>>
    /\ bus_pubs = {}
    /\ bus_next_id = 1
    /\ bus_invoked = <<>>
    /\ bus_raised = 0

InitWebhook ==
    /\ wh_pc = "idle"
    /\ wh_req = NoRequest
    /\ wh_status = 0
    /\ wh_ev = 0

\* a jobs table kept from an earlier run: two jobs that last ran at time 0
InitRemoved == sch_removed = EmptyDict

InitSched ==
    /\ sch_jobs = (1 :> [cron_expr |-> "*/1 * * * *", last_run |-> <<0>>])
                     @@ (2 :> [cron_expr |-> "*/2 * * * *", last_run |-> <<0>>])
    /\ sch_pc = "stopped"
    /\ sch_rows = <<>>
    /\ sch_iter_now = 0
    /\ sch_wake = 0
    /\ sch_iter = 0
    /\ sch_fired = <<>>
    /\ sch_due = {}

InitPause ==
    /\ pm_paused = FALSE
    /\ pm_queued = <<>>
    /\ pm_resume_task = NoTask
    /\ pm_timers = {}
    /\ pm_next_timer = 1
    /\ gate_next_id = 1
    /\ gate_dispatched = <<>>
    /\ pm_last = PmCall("none", "none", NoTask, FALSE, 0, <<>>)

InitPlan ==
    /\ plan_pc = "idle"
    /\ plan_status = "planning"
    /\ plan_steps = <<>>
    /\ plan_i = 0
    /\ plan_level = PUBLIC
    /\ plan_fails = {}
    /\ tool_invocations = 0
    /\ plan_started = <<>>
    /\ plan_executed = <<>>
    /\ plan_verdicts = <<>>

InitCreate ==
    /\ cp_db = EmptyDict
    /\ cp_next_id = 1
    /\ cp_last = [content |-> <<>>, outcome |-> "none", plan |-> NoPlan]

InitContext ==
    /\ ctx_rows = <<>>
    /\ ctx_next_id = 1
    /\ ctx_llm \in BOOLEAN
    /\ ctx_last = [op |-> "none", channel |-> <<"", "">>, messages |-> <<>>, count |-> 0]

InitRunLevel == pl_level = NoLevel

InitPipeline ==
    /\ pl_pc = "idle"
    /\ pl_dry_run \in BOOLEAN
    /\ pl_msg = [msg |-> [key |-> UserKey, channel |-> "c1", content |-> Hello,
                          message_id |-> ""],
                 passed |-> FALSE]
    /\ pl_effects = <<>>

InitCommands ==
    /\ mem_keys = {}
    /\ cmd_sent = <<>>

InitRetry ==
    /\ rt_provider = "anthropic"
    /\ rt_pc = "idle"
    /\ rt_attempt = 0
    /\ rt_log = <<>>
    /\ rt_waits = <<>>

InitOrch ==
    /\ or_pc = "new"
    /\ or_settings = [scheduler |-> FALSE, discord |-> FALSE, signal |-> FALSE]
    /\ or_transports = <<>>
    /\ or_started = {}
    /\ or_tasks = NoTasks
    /\ or_raised = "none"

InitChunk ==
    /\ ck_pc = "idle"
    /\ ck_text = <<>>
    /\ ck_limit = min_chunk_size
    /\ ck_chunks = <<>>

\* the state after construction, under every configuration of the context
\* manager and of the message handler
InitAnyConfig ==
    /\ now = 0
    /\ InitSudo
    /\ InitRate
    /\ InitExec
    /\ InitBus
    /\ InitWebhook
    /\ InitSched
    /\ InitPause
    /\ InitPlan
    /\ InitCreate
    /\ InitContext
    /\ InitPipeline
    /\ InitCommands
    /\ InitRetry
    /\ InitOrch
    /\ InitChunk
    /\ InitRunLevel
    /\ InitRemoved

\* the state after construction with a provider for the summaries and
\* without dry_run
Init == InitAnyConfig /\ ctx_llm /\ ~pl_dry_run

NextSudo ==
    /\ \/ Tick /\ UNCHANGED sudoVars
       \/ \E key \in Keys : GetLevel(key)
       \/ \E key \in Keys : RevokeSudo(key)
       \/ RequestSudo(UserKey, ADMIN)
       \/ \E key \in Keys : SudoList(key)
       \/ \E key \in Keys, rid \in RequestIds : SudoApprove(key, rid)
       \/ \E key \in Keys, rid \in RequestIds : SudoDeny(key, rid)
       \/ \E key \in Keys : SudoRequest(key)
    /\ UNCHANGED <<rateVars, execVars, busVars, whVars, schVars, pmVars, planVars, cpVars, ctxVars,
                   plVars,
                   pmHist, cmdVars,
                   rtVars,
                   orVars,
                   ckVars,
                   lvVars,
                   rmVars>>

NextRate ==
    /\ \/ Tick /\ UNCHANGED rateVars
       \/ \E key \in Keys : CheckRateLimit(key)
    /\ UNCHANGED <<sudoVars, execVars, busVars, whVars, schVars, pmVars, planVars, cpVars, ctxVars,
                   plVars,
                   pmHist, cmdVars,
                   rtVars,
                   orVars,
                   ckVars,
                   lvVars,
                   rmVars>>

NextExec ==
    /\ \/ \E level \in PermissionLevel : ExStart(level)
       \/ /\ ex_pc = "call"
          /\ \E response \in Responses(ex_iter + 1) : ExComplete(response)
       \/ ExCompleteRaises
       \/ \E success \in BOOLEAN : ExToolCall(success)
       \/ ExToolRaises
    /\ UNCHANGED <<now, sudoVars, rateVars, busVars, whVars, schVars, pmVars, planVars, cpVars, ctxVars,
                   plVars,
                   pmHist, cmdVars,
                   rtVars,
                   orVars,
                   ckVars,
                   lvVars,
                   rmVars>>

NextBus ==
    /\ \/ \E kind \in Kinds : Subscribe(kind)
       \/ \E kind \in Kinds : Publish(kind)
       \/ \E p \in bus_pubs : PublishResume(p)
       \/ BusStart
       \/ BusStop
       \/ \E t \in DOMAIN bus_tasks : ConsumerGet(t)
       \/ \E t \in DOMAIN bus_tasks : HandlerReturn(t)
       \/ \E t \in DOMAIN bus_tasks : HandlerRaise(t)
    /\ UNCHANGED <<now, sudoVars, rateVars, execVars, whVars, schVars, pmVars, planVars, cpVars, ctxVars,
                   plVars,
                   pmHist, cmdVars,
                   rtVars,
                   orVars,
                   ckVars,
                   lvVars,
                   rmVars>>

\* the bus of the orchestrator: start() is called on a bus that is not
\* running
NextBusOnce ==
    /\ \/ \E kind \in Kinds : Subscribe(kind)
       \/ \E kind \in Kinds : Publish(kind)
       \/ \E p \in bus_pubs : PublishResume(p)
       \/ ~bus_running /\ BusStart
       \/ BusStop
       \/ \E t \in DOMAIN bus_tasks : ConsumerGet(t)
       \/ \E t \in DOMAIN bus_tasks : HandlerReturn(t)
       \/ \E t \in DOMAIN bus_tasks : HandlerRaise(t)
    /\ UNCHANGED <<now, sudoVars, rateVars, execVars, whVars, schVars, pmVars, planVars,
                   cpVars, ctxVars, plVars, pmHist, cmdVars, rtVars, orVars, ckVars,
                   lvVars,
                   rmVars>>

NextBusCopies ==
    /\ \/ \E kind \in Kinds : Subscribe(kind)
       \/ \E kind \in Kinds : Publish(kind)
       \/ \E p \in bus_pubs : PublishResume(p)
       \/ BusStart
       \/ BusStop
       \/ \E t \in DOMAIN bus_tasks : ConsumerGet(t)
       \/ \E t \in DOMAIN bus_tasks : HandlerReturn(t)
    /\ UNCHANGED <<now, sudoVars, rateVars, execVars, whVars, schVars, pmVars, planVars, cpVars, ctxVars,
                   plVars,
                   pmHist, cmdVars,
                   rtVars,
                   orVars,
                   ckVars,
                   lvVars,
                   rmVars>>

NextWebhook ==
    /\ \/ Subscribe(WEBHOOK_RECEIVED) /\ UNCHANGED whVars
       \/ \E request \in Requests : HandleWebhook(request)
       \/ \E p \in bus_pubs : WebhookResume(p)
       \/ WebhookDone
    /\ UNCHANGED <<now, sudoVars, rateVars, execVars, schVars, pmVars, planVars, cpVars, ctxVars,
                   plVars,
                   pmHist, cmdVars,
                   rtVars,
                   orVars,
                   ckVars,
                   lvVars,
                   rmVars>>

NextSchedJobs ==
    /\ \/ CronTick /\ UNCHANGED rmVars
       \/ SchedStart /\ UNCHANGED rmVars
       \/ SchedStop /\ UNCHANGED rmVars
       \/ CronWake /\ UNCHANGED rmVars
       \/ CronCheck /\ UNCHANGED rmVars
       \/ CronWrite /\ UNCHANGED rmVars
       \/ CronWriteFails /\ UNCHANGED rmVars
       \/ CronEnd /\ UNCHANGED rmVars
       \/ \E id \in 1..MaxJobs : RemoveJob(id)
    /\ UNCHANGED <<sudoVars, rateVars, execVars, busVars, whVars, pmVars, planVars, cpVars,
                   ctxVars, plVars, pmHist, cmdVars, rtVars, orVars, ckVars, lvVars>>

NextSched ==
    /\ \/ CronTick
       \/ \E cron_expr \in CronExprs : AddJob(cron_expr)
       \/ SchedStart
       \/ SchedStop
       \/ CronWake
       \/ CronCheck
       \/ CronWrite
       \/ CronWriteFails
       \/ CronEnd
    /\ UNCHANGED <<sudoVars, rateVars, execVars, busVars, whVars, pmVars, planVars, cpVars, ctxVars,
                   plVars,
                   pmHist, cmdVars,
                   rtVars,
                   orVars,
                   ckVars,
                   lvVars,
                   rmVars>>

NextPause ==
    /\ \/ \E duration_seconds \in Durations : Pause(duration_seconds)
       \/ Resume
       \/ \E task \in pm_timers : AutoResume(task)
       \/ DrainQueue
       \/ \E kind \in Autonomous : ConsumeAutonomous(kind)
       \/ PipelineHandle
    /\ UNCHANGED <<now, sudoVars, rateVars, execVars, busVars, whVars, schVars, planVars, cpVars, ctxVars,
                   plVars,
                   pmHist, cmdVars,
                   rtVars,
                   orVars,
                   ckVars,
                   lvVars,
                   rmVars>>

NextPlan ==
    /\ \/ /\ plan_pc = "idle"
          /\ \E tools \in ShortPlans, level \in PlanLevels :
                \E fails \in SUBSET (1..Len(tools)) : ExecutePlan(tools, fails, level)
       \/ \E action \in Verdicts : PlanStepRefused(action)
       \/ PlanToolDone
       \/ \E action \in Verdicts : PlanToolFails(action)
       \/ PlanReasoningStep
       \/ PlanStepRaises
       \/ PlanReturn
    /\ UNCHANGED <<now, sudoVars, rateVars, execVars, busVars, whVars, schVars, pmVars, cpVars, ctxVars,
                   plVars,
                   pmHist, cmdVars,
                   rtVars,
                   orVars,
                   ckVars,
                   lvVars,
                   rmVars>>

NextPlanCap ==
    /\ \/ /\ plan_pc = "idle"
          /\ \E fails \in SetsUpTo(DOMAIN LongPlan, MaxFailures) :
                ExecutePlan(LongPlan, fails, OPERATOR)
       \/ PlanSkipAtCap
       \/ PlanToolDone
       \/ \E action \in Verdicts : PlanToolFails(action)
       \/ PlanStepRaises
       \/ PlanReturn
    /\ UNCHANGED <<now, sudoVars, rateVars, execVars, busVars, whVars, schVars, pmVars, cpVars, ctxVars,
                   plVars,
                   pmHist, cmdVars,
                   rtVars,
                   orVars,
                   ckVars,
                   lvVars,
                   rmVars>>

NextCreate ==
    /\ \/ /\ cp_next_id <= MaxPlans
          /\ \E content \in Contents : CreatePlan(content)
       \/ CreatePlanProviderRaises
    /\ UNCHANGED <<now, sudoVars, rateVars, execVars, busVars, whVars, schVars, pmVars,
                   planVars, ctxVars,
                   plVars,
                   pmHist, cmdVars,
                   rtVars,
                   orVars,
                   ckVars,
                   lvVars,
                   rmVars>>

NextContext ==
    /\ \/ /\ ctx_next_id <= MaxRows
          /\ \E channel \in Channels, tokens \in TokenCounts : AddMessage(channel, tokens)
       \/ \E channel \in Channels, summary \in SummaryTokens \cup {Fails} :
              GetContext(channel, summary)
       \/ \E channel \in Channels, summary \in SummaryTokens \cup {Fails} :
              Summarize(channel, summary)
       \/ \E channel \in Channels : Forget(channel)
       \/ \E channel \in Channels : GetStats(channel)
    /\ UNCHANGED <<now, sudoVars, rateVars, execVars, busVars, whVars, schVars, pmVars,
                   planVars, cpVars,
                   plVars,
                   pmHist, cmdVars,
                   rtVars,
                   orVars,
                   ckVars,
                   lvVars,
                   rmVars>>

NextRunLevel ==
    /\ \/ Tick /\ UNCHANGED <<sudoVars, rateVars, plVars, lvVars>>
       \/ /\ pl_pc \in {"idle", "returned", "raised"}
          /\ \E msg \in UserMessages : PlHandleAtLevel(msg)
       \/ PlGetContextRaises /\ UNCHANGED <<now, sudoVars, rateVars, lvVars>>
       \/ RequestSudo(UserKey, OPERATOR) /\ UNCHANGED <<rateVars, plVars, lvVars>>
       \/ \E rid \in RequestIds :
             SudoApprove(AdminKey, rid) /\ UNCHANGED <<rateVars, plVars, lvVars>>
       \/ RevokeSudo(UserKey) /\ UNCHANGED <<rateVars, plVars, lvVars>>
    /\ UNCHANGED <<execVars, busVars, whVars, schVars, pmVars, planVars, cpVars,
                   ctxVars, pmHist, cmdVars, rtVars, orVars, ckVars,
                   rmVars>>

NextPipeline ==
    /\ \/ Tick /\ UNCHANGED <<rateVars, plVars>>
       \/ /\ pl_pc \in {"idle", "returned", "raised"}
          /\ \E msg \in IncomingMessages : PlHandle(msg)
       \/ PlDryRun /\ UNCHANGED <<now, rateVars>>
       \/ PlGetContextRaises /\ UNCHANGED <<now, rateVars>>
    /\ UNCHANGED <<sudoVars, execVars, busVars, whVars, schVars, pmVars, planVars, cpVars,
                   ctxVars,
                   pmHist, cmdVars,
                   rtVars,
                   orVars,
                   ckVars,
                   lvVars,
                   rmVars>>

NextPauseCalls ==
    /\ \/ \E duration_seconds \in Durations : PauseCall(duration_seconds)
       \/ ResumeCall
       \/ \E task \in pm_timers : AutoResume(task) /\ UNCHANGED pm_last
       \/ DrainQueueCall
       \/ ConsumeAutonomous(SCHEDULER_TRIGGER) /\ UNCHANGED pm_last
    /\ UNCHANGED <<now, sudoVars, rateVars, execVars, busVars, whVars, schVars, planVars,
                   cpVars, ctxVars, plVars,
                   cmdVars,
                   rtVars,
                   orVars,
                   ckVars,
                   lvVars,
                   rmVars>>

NextCommands ==
    /\ \/ /\ pending_sudo = EmptyDict /\ sudo_grants = EmptyDict
          /\ \E level \in {TRUSTED, OPERATOR} : RequestSudo(UserKey, level)
          /\ UNCHANGED <<rateVars, pmVars, cmdVars>>
       \/ /\ \E rid \in DOMAIN pending_sudo : SudoApprove(AdminKey, rid)
          /\ UNCHANGED <<rateVars, pmVars, cmdVars>>
       \/ /\ pm_timers = {}
          /\ \E key \in Keys, channel \in ChannelNames, duration_seconds \in Durations :
                CmdPause(key, channel, duration_seconds)
          /\ UNCHANGED rateVars
       \/ /\ \E key \in Keys, channel \in ChannelNames : CmdResume(key, channel)
          /\ UNCHANGED rateVars
       \/ /\ \E key \in Keys, channel \in ChannelNames : CmdMemoryClear(key, channel)
          /\ UNCHANGED rateVars
       \/ /\ \E key \in MemoryKeys : MemorySet(key)
          /\ UNCHANGED <<now, sudoVars, rateVars, pmVars>>
       \/ /\ pm_paused
          /\ gate_next_id <= MaxBuffered
          /\ ConsumeAutonomous(SCHEDULER_TRIGGER)
          /\ UNCHANGED <<now, sudoVars, rateVars, cmdVars>>
    /\ UNCHANGED <<execVars, busVars, whVars, schVars, planVars, cpVars, ctxVars, plVars,
                   pmHist, rtVars,
                   orVars,
                   ckVars,
                   lvVars,
                   rmVars>>

NextRetry ==
    /\ \/ \E provider \in Providers : RetryCall(provider)
       \/ /\ rt_pc = "trying"
          /\ \E outcome \in Outcomes, jitter \in Jitters : RetryAttempt(outcome, jitter)
    /\ UNCHANGED <<now, sudoVars, rateVars, execVars, busVars, whVars, schVars, pmVars,
                   planVars, cpVars, ctxVars, plVars, pmHist, cmdVars,
                   orVars,
                   ckVars,
                   lvVars,
                   rmVars>>

NextOrch ==
    /\ \/ \E settings \in SettingsSet : OrchStart(settings)
       \/ OrchSkip
       \/ OrchStepReturns
       \/ OrchStepRaises
       \/ \E t \in Transports, outcome \in {"connected", "failed"} :
              TransportTaskEnds(t, outcome)
    /\ UNCHANGED <<now, sudoVars, rateVars, execVars, busVars, whVars, schVars, pmVars,
                   planVars, cpVars, ctxVars, plVars, pmHist, cmdVars, rtVars,
                   ckVars,
                   lvVars,
                   rmVars>>

NextChunk ==
    /\ \/ /\ ck_pc = "idle"
          /\ \E text \in Texts, limit \in Limits : ChunkMessage(text, limit)
       \/ ChunksSent
    /\ UNCHANGED <<now, sudoVars, rateVars, execVars, busVars, whVars, schVars, pmVars,
                   planVars, cpVars, ctxVars, plVars, pmHist, cmdVars, rtVars, orVars,
                   lvVars,
                   rmVars>>

\* the sudo ledger driven by slash commands, level reads and the clock
SpecSudo == Init /\ [][NextSudo]_vars

\* the rate limiter driven by check_rate_limit calls and the clock
SpecRate == Init /\ [][NextRate]_vars

\* runs of the tool-use loop against an arbitrary provider
SpecExec == Init /\ [][NextExec]_vars

\* the responses the provider may give in iteration it when echo is the
\* one tool it asks for, at most `calls` times in a response
EchoResponses(it, calls) ==
    {[content |-> c, tool_calls |-> ToolCallsOf(names, it)] :
        c \in {"", "Done"}, names \in SeqsUpTo({"echo"}, 0, calls)}

\* a step of a run in progress: an awaited provider call or tool ends
RunStep ==
    \/ \E response \in EchoResponses(ex_iter + 1, MaxToolCalls) : ExComplete(response)
    \/ ExCompleteRaises
    \/ \E success \in BOOLEAN : ExToolCall(success)
    \/ ExToolRaises

NextExecLive ==
    /\ \/ \E level \in PermissionLevel : ExStart(level)
       \/ RunStep
    /\ UNCHANGED <<now, sudoVars, rateVars, busVars, whVars, schVars, pmVars, planVars, cpVars, ctxVars,
                   plVars,
                   pmHist, cmdVars,
                   rtVars,
                   orVars,
                   ckVars,
                   lvVars,
                   rmVars>>

\* ToolExecutor.run where every awaited provider call and tool comes to an
\* end, with the one tool echo
SpecExecLive == Init /\ [][NextExecLive]_vars /\ WF_vars(NextExecLive /\ RunStep)

NextExecTurns ==
    /\ \/ \E level \in PermissionLevel : ExStart(level)
       \/ \E response \in EchoResponses(ex_iter + 1, MaxEchoCalls) : ExComplete(response)
       \/ ExCompleteRaises
       \/ \E success \in BOOLEAN : ExToolCall(success)
       \/ ExToolRaises
    /\ UNCHANGED <<now, sudoVars, rateVars, busVars, whVars, schVars, pmVars, planVars, cpVars, ctxVars,
                   plVars,
                   pmHist, cmdVars,
                   rtVars,
                   orVars,
                   ckVars,
                   lvVars,
                   rmVars>>

\* ToolExecutor.run with responses that ask for echo several times
SpecExecTurns == Init /\ [][NextExecTurns]_vars

\* the event bus with its publishers, workers and handlers
SpecBus == Init /\ [][NextBus]_vars

\* the webhook server handling requests, with subscribers of its events
\* the bus with handlers that return: the way of the events from publish to
\* the handlers
SpecBusCopies == Init /\ [][NextBusCopies]_vars

\* the bus with start() called once, and again only after stop()
SpecBusOnce == Init /\ [][NextBusOnce]_vars

SpecWebhook == Init /\ [][NextWebhook]_vars

\* the cron loop of the scheduler, the jobs table and the clock
SpecSched == Init /\ [][NextSched]_vars

\* the cron loop next to remove_job
SpecSchedJobs == Init /\ [][NextSchedJobs]_vars

\* the pause gate, its auto-resume tasks and the consumers that read it
SpecPause == Init /\ [][NextPause]_vars

\* execute_plan on plans of a few steps of every kind
SpecPlan == Init /\ [][NextPlan]_vars

\* execute_plan on a plan with more tool steps than the cap allows
SpecPlanCap == Init /\ [][NextPlanCap]_vars

\* the context manager constructed with or without a provider
InitWithOrWithoutLlm == InitAnyConfig /\ ~pl_dry_run

\* the context store under every sequence of calls
SpecContext == InitWithOrWithoutLlm /\ [][NextContext]_vars

\* the message handler constructed with or without dry_run
InitWithOrWithoutDryRun == InitAnyConfig /\ ctx_llm

\* the message pipeline with the rate limiter and the clock
SpecPipeline == InitWithOrWithoutDryRun /\ [][NextPipeline]_vars

\* handle with its level lookup, next to the approvals, expiries and
\* revocations of sudo grants
SpecRunLevel == Init /\ [][NextRunLevel]_vars

\* the calls of the pause gate with their return values
SpecPauseCalls == Init /\ [][NextPauseCalls]_vars

\* the gate and the memory store under slash commands of senders of every
\* level
SpecCommands == Init /\ [][NextCommands]_vars

\* one completion call of either provider under every sequence of outcomes
SpecRetry == Init /\ [][NextRetry]_vars

\* Shannon.start under every setting, with starts that return or raise
SpecOrch == Init /\ [][NextOrch]_vars

\* chunk_message on every short text and small limit
SpecChunk == Init /\ [][NextChunk]_vars

\* create_plan on every provider answer
SpecCreate == Init /\ [][NextCreate]_vars

\* ------------------------------------------------------------------------
\* Properties of the auth ledger
\* ------------------------------------------------------------------------
\* the level a lookup at the current time honours for a key
EffLevel(key) ==
    IF key \in DOMAIN sudo_grants /\ now < sudo_grants[key].expiry
    THEN sudo_grants[key].level
    ELSE StaticLevel(key)

\* some grant is new or differs from the one stored before the step
GrantInstalled ==
    \E k \in DOMAIN sudo_grants' :
        k \notin DOMAIN sudo_grants \/ sudo_grants'[k] # sudo_grants[k]

\* the key holds an approved ADMIN grant that was neither revoked nor has
\* run out at the current time
HoldsLiveAdminGrant(key) ==
    /\ key \in DOMAIN in_force
    /\ in_force[key].level >= ADMIN
    /\ now < in_force[key].t0 + sudo_timeout

\* C38: the approver check of approve_sudo uses the approver's effective
\* level: an approver whose configured level is below ADMIN approves a pending
\* request (their own included) exactly while they hold an unexpired,
\* unrevoked ADMIN grant; the requester then gets the requested grant, and
\* otherwise the call returns False and the request stays pending
C38_ApproverCheckedAtEffectiveLevel ==
    [][\A key \in Keys, rid \in RequestIds :
          (StaticLevel(key) < ADMIN /\ rid \in DOMAIN pending_sudo /\ SudoApprove(key, rid))
          => IF HoldsLiveAdminGrant(key)
             THEN /\ auth_last'.ret = TRUE
                /\ rid \notin DOMAIN pending_sudo'
                /\ sudo_grants'[pending_sudo[rid].key] =
                        [level |-> pending_sudo[rid].level, expiry |-> now + sudo_timeout]
             ELSE /\ auth_last'.ret = FALSE
                /\ pending_sudo' = pending_sudo
                /\ ~GrantInstalled]_vars

\* a user whose ADMIN level comes only from a sudo grant has just approved
\* their own pending request
C38_Witness ==
    /\ auth_last.op = "approve_sudo"
    /\ auth_last.key = UserKey
    /\ auth_last.ret = TRUE
    /\ StaticLevel(UserKey) < ADMIN
    /\ now > 0
    /\ UserKey \in DOMAIN in_force
    /\ \A k \in DOMAIN in_force : in_force[k].t0 = now <=> k = UserKey

\* the stored grants are the old ones, except that the expired grant of
\* `key` may have been dropped
OnlyExpiredOwnGrantDropped(key) ==
    /\ DOMAIN sudo_grants' \subseteq DOMAIN sudo_grants
    /\ \A k \in DOMAIN sudo_grants :
          IF k \in DOMAIN sudo_grants'
          THEN sudo_grants'[k] = sudo_grants[k]
          ELSE k = key /\ now >= sudo_grants[k].expiry

\* C2 (as stated): approve_sudo installs a grant only when the approver is
\* ADMIN at the time of the call; a non-ADMIN approver gets false and the
\* pending requests and every stored grant are left unchanged; an ADMIN
\* approving a pending request succeeds.
C2_RefusalChangesNothing ==
    [][\A key \in Keys, rid \in RequestIds :
          SudoApprove(key, rid) =>
            /\ (GrantInstalled \/ auth_last'.ret) => EffLevel(key) = ADMIN
            /\ EffLevel(key) # ADMIN =>
                  /\ auth_last'.ret = FALSE
                  /\ pending_sudo' = pending_sudo
                  /\ sudo_grants' = sudo_grants
            /\ (EffLevel(key) = ADMIN /\ rid \in DOMAIN pending_sudo) =>
                  /\ auth_last'.ret = TRUE
                  /\ rid \notin DOMAIN pending_sudo'
       ]_vars

\* C2 (amended): as C2, but a refused approval leaves every unexpired grant
\* unchanged; the only change it can make is to drop the approver's own
\* expired grant, and the approver's effective level is ADMIN at any
\* successful approval.
C2_RefusalKeepsPendingAndLiveGrants ==
    [][\A key \in Keys, rid \in RequestIds :
          SudoApprove(key, rid) =>
            /\ (GrantInstalled \/ auth_last'.ret) => EffLevel(key) = ADMIN
            /\ EffLevel(key) # ADMIN =>
                  /\ auth_last'.ret = FALSE
                  /\ pending_sudo' = pending_sudo
                  /\ OnlyExpiredOwnGrantDropped(key)
            /\ (EffLevel(key) = ADMIN /\ rid \in DOMAIN pending_sudo) =>
                  /\ auth_last'.ret = TRUE
                  /\ rid \notin DOMAIN pending_sudo'
       ]_vars

\* a user whose sudo grant has expired was refused as approver of a pending
\* request, and the request is still pending
C2_Witness ==
    /\ auth_last.op = "approve_sudo"
    /\ auth_last.ret = FALSE
    /\ auth_last.rid \in DOMAIN pending_sudo
    /\ auth_last.key \in DOMAIN in_force
    /\ now >= in_force[auth_last.key].t0 + sudo_timeout
    /\ auth_last.key \notin DOMAIN sudo_grants

\* C3: while an approval for level L made at t0 is in force (no revoke, no
\* later approval), a level read at time t returns L when t < t0 + timeout
\* and the static binding (or the default) when t >= t0 + timeout.
C3_GrantHonouredUntilExpiry ==
    [][\A key \in Keys :
          (GetLevel(key) /\ key \in DOMAIN in_force) =>
            auth_last'.ret = IF now < in_force[key].t0 + sudo_timeout
                             THEN in_force[key].level
                             ELSE StaticLevel(key)
       ]_vars

\* a level read made exactly at the expiry of a grant for another level
\* returned the static binding
C3_Witness ==
    /\ auth_last.op = "get_level"
    /\ auth_last.key \in DOMAIN in_force
    /\ now = in_force[auth_last.key].t0 + sudo_timeout
    /\ in_force[auth_last.key].level # StaticLevel(auth_last.key)
    /\ auth_last.ret = StaticLevel(auth_last.key)
    /\ auth_last.key \notin DOMAIN sudo_grants

\* C4: a pending request leaves the pending set only through a
\* "/sudo approve" or "/sudo deny" of that request sent by a user whose
\* level is ADMIN.
C4_PendingLeavesByAdminOnly ==
    [][\A rid \in DOMAIN pending_sudo :
          rid \notin DOMAIN pending_sudo' =>
            /\ auth_last'.op \in {"approve_sudo", "deny_sudo"}
            /\ auth_last'.rid = rid
            /\ EffLevel(auth_last'.key) = ADMIN
       ]_vars

\* ------------------------------------------------------------------------
\* Properties of the rate limiter
\* ------------------------------------------------------------------------
\* the number of accepted calls of a key with a time in [t, t + RateWindow)
AcceptedInWindow(key, t) ==
    Cardinality({i \in DOMAIN accepted[key] :
                    t <= accepted[key][i] /\ accepted[key][i] < t + RateWindow})

\* C5: for every key, the calls that returned true inside any window of 60
\* seconds [t, t + 60) number at most rate_limit_per_minute.
C5_AcceptancesPerWindow ==
    \A key \in Keys : \A t \in 0..MaxTime :
        AcceptedInWindow(key, t) <= rate_limit

\* a call was refused at the limit and a later call of the same key was
\* accepted once the window had moved on
C5_Witness ==
    \E key \in Keys :
        /\ rate_last = [key |-> key, ret |-> TRUE]
        /\ Len(accepted[key]) > rate_limit
        /\ AcceptedInWindow(key, now - RateWindow + 1) = rate_limit

\* C26: a check_rate_limit call that returns false leaves the stored window
\* of its key as it was, a call that returns true leaves in it the
\* timestamps of the last 60 seconds followed by the current time, and no
\* call changes the window of another key.
C26_RateWindowFrame ==
    [][\A key \in Keys :
          CheckRateLimit(key) =>
              /\ ~rate_last'.ret => rate_log'[key] = rate_log[key]
              /\ rate_last'.ret =>
                     rate_log'[key] = Append(Prune(rate_log[key], now - RateWindow), now)
              /\ \A other \in Keys \ {key} : rate_log'[other] = rate_log[other]]_vars

\* a call was refused while the window of its key was full and the other
\* key had a window of its own
C26_Witness ==
    \E key \in Keys :
        /\ rate_last = [key |-> key, ret |-> FALSE]
        /\ Len(rate_log[key]) = rate_limit
        /\ \A other \in Keys \ {key} :
               rate_log[other] # <<>> /\ rate_log[other] # rate_log[key]

\* ------------------------------------------------------------------------
\* Properties of the tool-use loop
\* ------------------------------------------------------------------------
\* the tool_result entries produced so far for the tool calls of ex_response
CurrentResults ==
    IF ex_pc = "tools" \/ (ex_pc = "raised" /\ ex_idx > 0) THEN ex_results
    ELSE IF ex_response.tool_calls # <<>> THEN ex_messages[Len(ex_messages)].content
    ELSE <<>>

\* C1: tool.execute is invoked for a tool call only if the tool name is
\* registered and user_level >= its required_permission; a call to an
\* unknown tool or with an insufficient level gets a tool_result with
\* is_error = true for that call id and the tool is not executed.
C1_ExecuteOnlyWhenPermitted ==
    /\ \A tc \in ex_executed :
          tc.name \in DOMAIN tool_map /\ ex_level >= tool_map[tc.name]
    /\ \A i \in 1..Len(CurrentResults) :
          LET tc == ex_response.tool_calls[i]
              r == CurrentResults[i]
          IN  (tc.name \notin DOMAIN tool_map \/ ex_level < tool_map[tc.name]) =>
                /\ r.type = "tool_result"
                /\ r.tool_use_id = tc.id
                /\ r.is_error = TRUE
                /\ tc \notin ex_executed

\* a run executed a permitted tool in one iteration and, in the next,
\* answered a call to a tool above the user's level with an error result
C1_Witness ==
    /\ ex_pc = "done"
    /\ ex_executed # {}
    /\ \E i \in 1..Len(CurrentResults) :
          /\ ex_response.tool_calls[i].name \in DOMAIN tool_map
          /\ ex_level < tool_map[ex_response.tool_calls[i].name]
          /\ CurrentResults[i].is_error
          /\ ex_response.tool_calls[i] \notin ex_executed

\* ------------------------------------------------------------------------
\* Properties of the event bus
\* ------------------------------------------------------------------------
\* event numbers are allocated in the order of the publish calls
StrictlyIncreasing(seq) ==
    \A i, j \in DOMAIN seq : i < j => seq[i].id < seq[j].id

\* C8: for every subscription, the order in which its handler is invoked
\* on events equals the order in which those events were published.
C8_HandlerOrderIsPublishOrder ==
    \A s \in DOMAIN bus_invoked : StrictlyIncreasing(bus_invoked[s])

\* what one run of the publish loop for event ev, entered at subscription
\* i0, must do to the queues
PublishStepOk(ev, i0) ==
    LET inflight == {p \in bus_pubs' : p.ev = ev}
        last == IF inflight = {} THEN Len(bus_subs)
                ELSE (CHOOSE p \in inflight : TRUE).next - 1
    IN  /\ \A k \in DOMAIN bus_subs :
              IF k \in i0..last /\ bus_subs[k] = ev.kind
              THEN IF Len(bus_queue[k]) >= max_queue_size
                   THEN /\ bus_queue'[k] = bus_queue[k]
                        /\ inflight # {}
                        /\ k = last
                   ELSE bus_queue'[k] = Append(bus_queue[k], ev)
              ELSE bus_queue'[k] = bus_queue[k]
        /\ inflight # {} =>
              /\ last \in i0..Len(bus_subs)
              /\ bus_subs[last] = ev.kind
              /\ Len(bus_queue[last]) >= max_queue_size

\* C9: publish never waits for queue space and never fails: at each
\* subscription of the event's kind whose queue is full the event is
\* dropped for that subscription only, and every subscription of that kind
\* with free space enqueues it; a suspended publish can always go on.
C9_PublishDropsOnlyAtFullQueues ==
    [][/\ \A kind \in Kinds :
             Publish(kind) => PublishStepOk([kind |-> kind, id |-> bus_next_id], 1)
       /\ \A p \in bus_pubs :
             PublishResume(p) => PublishStepOk(p.ev, p.next)
       /\ \A p \in bus_pubs : ENABLED PublishResume(p)
      ]_vars

\* an event was dropped at a full queue and enqueued by an earlier
\* subscription of the same kind
C9_Witness ==
    \E p \in bus_pubs : \E j \in 1..(p.next - 2) :
        /\ bus_subs[j] = p.ev.kind
        /\ \E i \in DOMAIN bus_queue[j] : bus_queue[j][i] = p.ev
        /\ \A i \in DOMAIN bus_queue[p.next - 1] : bus_queue[p.next - 1][i] # p.ev

\* C10: when a handler raises, its worker stays alive and goes back to
\* waiting for the next event; the queues, the other workers and the bus
\* are left as they were, and no worker ever terminates while the bus runs.
C10_WorkerSurvivesHandlerError ==
    [][/\ \A t \in DOMAIN bus_tasks :
             HandlerRaise(t) =>
               /\ DOMAIN bus_tasks' = DOMAIN bus_tasks
               /\ bus_tasks'[t] = [sub |-> bus_tasks[t].sub, state |-> "waiting"]
               /\ \A u \in DOMAIN bus_tasks \ {t} : bus_tasks'[u] = bus_tasks[u]
               /\ bus_running' = bus_running
               /\ bus_queue' = bus_queue
               /\ bus_subs' = bus_subs
               /\ bus_invoked' = bus_invoked
       /\ \A t \in DOMAIN bus_tasks' :
             /\ bus_tasks'[t].state \in {"waiting", "handling"}
             /\ (bus_running' /\ bus_tasks'[t].state = "waiting"
                    /\ bus_queue'[bus_tasks'[t].sub] # <<>>) =>
                  bus_tasks'[t].sub \in DOMAIN bus_queue'
      ]_vars

\* the handler of a worker raised, and the worker has passed a later event
\* to the handler while another worker is handling an event of its own
C10_Witness ==
    /\ bus_raised \in DOMAIN bus_tasks
    /\ bus_tasks[bus_raised].state = "handling"
    /\ \E u \in DOMAIN bus_tasks \ {bus_raised} : bus_tasks[u].state = "handling"

\* the events subscription s was given: those its handler was called on and
\* those waiting in its queue
Given(invoked, queue, s) == invoked[s] \o queue[s]

\* the events are all of the given kind and no event occurs twice
OwnKindOnce(given, kind) ==
    /\ \A i \in DOMAIN given : given[i].kind = kind
    /\ Cardinality({given[i].id : i \in DOMAIN given}) = Len(given)

\* C11: an event published while the bus runs goes, as one copy, to every
\* subscription of its kind that has room; a worker hands each copy of its
\* queue to the handler once and removes it; no subscription is ever given
\* an event of another kind, or the same event twice.
C11_OneCopyPerSubscriberOfKind ==
    [][/\ \A kind \in Kinds :
             (bus_running /\ Publish(kind)) =>
                 PublishStepOk([kind |-> kind, id |-> bus_next_id], 1)
       /\ \A p \in bus_pubs :
             (bus_running /\ PublishResume(p)) => PublishStepOk(p.ev, p.next)
       /\ \A t \in DOMAIN bus_tasks :
             ConsumerGet(t) =>
                 LET s == bus_tasks[t].sub
                 IN  /\ bus_invoked'[s] = Append(bus_invoked[s], Head(bus_queue[s]))
                     /\ bus_queue'[s] = Tail(bus_queue[s])
       /\ \A s \in DOMAIN bus_subs' : OwnKindOnce(Given(bus_invoked', bus_queue', s), bus_subs'[s])
      ]_vars

\* with the bus running, a subscription of each kind has had its handler
\* called on an event of its own kind
C11_Witness ==
    /\ bus_running
    /\ Len(bus_subs) = 2
    /\ bus_subs[1] # bus_subs[2]
    /\ \A s \in DOMAIN bus_subs : bus_invoked[s] # <<>>

\* ------------------------------------------------------------------------
\* Properties of the webhook server
\* ------------------------------------------------------------------------
\* the header of the endpoint's kind carries what the endpoint's secret
\* calls for (section 4.8 of the specification; no secret, nothing valid)
SignatureValid(endpoint, request) ==
    LET name == Lower(endpoint.name)
    IN  /\ endpoint.secret # ""
        /\ IF Contains(name, GITHUB)
           THEN request.hub_signature =
                    Sent(Sha256Prefixed(HexDigest(endpoint.secret, request.body)))
           ELSE IF Contains(name, SENTRY)
           THEN request.sentry_signature = Sent(HexDigest(endpoint.secret, request.body))
           ELSE HeaderGet(request.webhook_secret,
                          HeaderGet(request.authorization, EmptyStr)) = Str(endpoint.secret)

\* C6: a request is answered 200 if and only if it published an event; a
\* request with a JSON body to a configured endpoint is answered 200 with
\* one event published when its signature is valid, and 401 with no event
\* when the signature is wrong or missing.
C6_PublishedIffOkBySignature ==
    wh_pc = "answered" =>
        /\ (wh_ev # 0) <=> (wh_status = 200)
        /\ LET e == FindEndpoint(wh_req.path)
           IN  (e # NoEndpoint /\ JsonLoads(wh_req.body).ok) =>
                   IF SignatureValid(endpoints[e], wh_req)
                   THEN wh_status = 200 /\ wh_ev # 0
                   ELSE wh_status = 401 /\ wh_ev = 0

\* a request with a JSON body to an endpoint whose secret is empty
EmptySecretJson(request) ==
    LET e == FindEndpoint(request.path)
    IN  /\ e # NoEndpoint
        /\ endpoints[e].secret = ""
        /\ JsonLoads(request.body).ok

\* C7: a request with a JSON body to an endpoint with an empty secret is
\* answered 401 and publishes nothing, whatever its headers carry.
C7_EmptySecretRejectsAll ==
    [][(HandleWebhook(wh_req') /\ EmptySecretJson(wh_req')) =>
          /\ wh_pc' = "answered"
          /\ wh_status' = 401
          /\ wh_ev' = 0
          /\ bus_next_id' = bus_next_id
          /\ bus_queue' = bus_queue
          /\ bus_pubs' = bus_pubs]_vars

\* a GitHub endpoint without a secret has rejected a request signed with
\* the HMAC of its body under the empty key
C7_Witness ==
    /\ wh_pc = "answered"
    /\ wh_status = 401
    /\ EmptySecretJson(wh_req)
    /\ Contains(Lower(endpoints[FindEndpoint(wh_req.path)].name), GITHUB)
    /\ wh_req.hub_signature = Sent(Sha256Prefixed(HexDigest("", wh_req.body)))

\* ------------------------------------------------------------------------
\* Properties of the scheduler
\* ------------------------------------------------------------------------
\* the triggers published for one job, in the order of publication
FiredOf(job) == SelectSeq(sch_fired, LAMBDA f : f.job = job)

\* C12: for every job, between two consecutive trigger publications at least
\* one tick of the job's cron expression elapses, so no tick produces more
\* than one scheduler.trigger, whatever happens between the publication and
\* the write of last_run.
C12_AtMostOneTriggerPerTick ==
    \A job \in DOMAIN sch_jobs :
        LET fired == FiredOf(job)
        IN  \A i \in DOMAIN fired :
                i + 1 \in DOMAIN fired =>
                    /\ NextTick(sch_jobs[job].cron_expr, fired[i].at) <= fired[i + 1].at
                    /\ fired[i].tick < fired[i + 1].tick

\* the triggers published for a job in the iteration now running or last run
FiredNow(job) == SelectSeq(sch_fired, LAMBDA f : f.job = job /\ f.iter = sch_iter)

\* C13: a job whose last_run lies at least one tick in the past when an
\* iteration of the cron loop begins gets exactly one scheduler.trigger in
\* that iteration, and when the iteration ends (before the following one
\* starts) its last_run is that iteration's time.
C13_DueJobFiresOnceAndIsStamped ==
    [][ /\ \A job \in DOMAIN sch_jobs' :
               Len(SelectSeq(sch_fired', LAMBDA f : f.job = job /\ f.iter = sch_iter')) <= 1
        /\ (CronEnd \/ CronWriteFails) =>
               \A job \in sch_due :
                   /\ Len(FiredNow(job)) = 1
                   /\ sch_jobs'[job].last_run = <<sch_iter_now>> ]_vars

\* the workers of subscription s
WorkersFor(s) == {t \in DOMAIN bus_tasks : bus_tasks[t].sub = s}

\* the workers of subscription s whose handler is running
Handling(s) == {t \in WorkersFor(s) : bus_tasks[t].state = "handling"}

\* C35: when start() is called on a bus that is not running, a subscription
\* has at most one worker and its handler at most one invocation in
\* progress; a worker takes the next event only when the handler has
\* returned or raised on the one before.
C35_OneInvocationPerSubscriberAtATime ==
    /\ [](\A s \in DOMAIN bus_subs :
              /\ Cardinality(WorkersFor(s)) <= 1
              /\ Cardinality(Handling(s)) <= 1)
    /\ [][\A t \in DOMAIN bus_tasks :
              ConsumerGet(t) => Handling(bus_tasks[t].sub) = {}]_vars

\* a subscription of message.incoming whose handler has been invoked on
\* two events and is running on the second, with the third in its queue
C35_Witness ==
    /\ bus_running
    /\ bus_subs # <<>>
    /\ bus_subs[1] = "message.incoming"
    /\ Len(bus_invoked[1]) = 2
    /\ Handling(1) # {}
    /\ bus_queue[1] # <<>>

\* C36: a subscription made while the bus runs has no worker as long as
\* the bus is not stopped: its handler is not invoked, its queue loses no
\* event and takes one more only while it is not full.
C36_LateSubscriberIsNeverServed ==
    [][/\ (bus_running /\ Len(bus_subs') > Len(bus_subs)) =>
              {t \in DOMAIN bus_tasks' : bus_tasks'[t].sub = Len(bus_subs')} = {}
       /\ \A s \in DOMAIN bus_subs :
          (bus_running /\ WorkersFor(s) = {}) =>
              /\ bus_invoked'[s] = bus_invoked[s]
              /\ \/ bus_queue'[s] = bus_queue[s]
                 \/ /\ Len(bus_queue[s]) < max_queue_size
                    /\ Len(bus_queue'[s]) = Len(bus_queue[s]) + 1
                    /\ SubSeq(bus_queue'[s], 1, Len(bus_queue[s])) = bus_queue[s]
              /\ bus_running' =>
                    {t \in DOMAIN bus_tasks' : bus_tasks'[t].sub = s} = {}]_vars

\* the second subscription was made after start(): it has no worker, its
\* queue is full with the first event, and a later event of its kind, which
\* the first subscription's handler has been invoked on, was dropped for it
C36_Witness ==
    /\ bus_running
    /\ Len(bus_subs) = 2
    /\ bus_subs[1] = bus_subs[2]
    /\ WorkersFor(1) # {}
    /\ WorkersFor(2) = {}
    /\ Len(bus_queue[2]) = max_queue_size
    /\ bus_invoked[2] = <<>>
    /\ bus_pubs = {}
    /\ \E i \in DOMAIN bus_invoked[1] :
           \A j \in DOMAIN bus_queue[2] : bus_invoked[1][i].id > bus_queue[2][j].id

\* C37: pause() cancels no pending auto-resume task, whatever its own
\* duration, and when the sleep of any pending task ends, the one of an
\* earlier pause included, the gate is open afterwards.
C37_EarlierTimerStillResumes ==
    [][/\ \A duration_seconds \in Durations :
              PauseCall(duration_seconds) => pm_timers \subseteq pm_timers'
       /\ \A task \in pm_timers : AutoResume(task) => ~pm_paused']_vars

\* the last call of the gate was a pause() without duration, made while the
\* gate was paused with a timer pending, and the gate is open: the timer of
\* the earlier pause has fired
C37_Witness ==
    /\ pm_last.op = "pause"
    /\ pm_last.task = NoTask
    /\ ~pm_last.after_resume
    /\ pm_next_timer > 1
    /\ ~pm_paused

\* C34: a job whose last_run is NULL has no scheduler.trigger published for
\* it, and no step of the cron loop fires it or writes its last_run: the
\* next fire time is counted from the time of the iteration and lies after
\* it.
C34_JobWithoutLastRunNeverFires ==
    /\ [](\A job \in DOMAIN sch_jobs :
              sch_jobs[job].last_run = Null =>
                  /\ FiredOf(job) = <<>>
                  /\ ~Due(sch_jobs[job].cron_expr, Null, now))
    /\ [][\A job \in DOMAIN sch_jobs :
              sch_jobs[job].last_run = Null => sch_jobs'[job].last_run = Null]_vars

\* the loop stands at the row of a job without last_run, in its second or
\* a later iteration, two minutes or more after the start of the clock
C34_Witness ==
    /\ sch_pc = "rows"
    /\ sch_rows # <<>>
    /\ Head(sch_rows).last_run = Null
    /\ sch_iter >= 2
    /\ sch_iter_now >= 2 * Minute
    /\ sch_fired # <<>>

\* the triggers published for a job since it was deleted
FiredSinceRemoved(id) ==
    LET all == FiredOf(id)
    IN  SubSeq(all, sch_removed[id].fired + 1, Len(all))

\* C40: for a job deleted by remove_job, at most one scheduler.trigger is
\* published after the deletion, and only when the deletion came after the
\* running iteration had fetched the job's row and before it reached it: the
\* trigger belongs to that iteration, none is published in a later one
C40_DeletedJobFiresAtMostOnceMore ==
    \A id \in DOMAIN sch_removed :
        LET since == FiredSinceRemoved(id)
        IN  /\ Len(since) <= 1
            /\ \A i \in DOMAIN since :
                  /\ sch_removed[id].listed
                  /\ since[i].iter = sch_removed[id].iter

\* a job deleted after the iteration had fetched its row was published once
\* more in that iteration, and a later iteration has begun since
C40_Witness ==
    \E id \in DOMAIN sch_removed :
        /\ sch_removed[id].listed
        /\ Len(FiredSinceRemoved(id)) = 1
        /\ sch_iter > sch_removed[id].iter
        /\ sch_pc = "sleep"

C27_ResumeCountsAndDrainEmpties ==
    [][ /\ ResumeCall =>
              /\ ~pm_paused'
              /\ pm_timers' = {}
              /\ pm_last'.count = Len(pm_queued)
              /\ pm_queued' = pm_queued
        /\ DrainQueueCall => pm_last'.events = pm_queued /\ pm_queued' = <<>>
        /\ Len(pm_queued') < Len(pm_queued) => DrainQueueCall ]_vars

\* C28: when the auto-resume task of the last pause(d), d > 0, has slept its
\* d seconds and neither pause nor resume was called since, the gate is
\* open; and when the last call of pause or resume is a pause() without
\* duration that came right after an explicit resume(), the gate is closed.
C28_AutoResumeOpensAndCancelledStaysOut ==
    /\ (pm_last.gate_op = "pause" /\ pm_last.task # NoTask /\ pm_last.task \notin pm_timers) =>
           ~pm_paused
    /\ (pm_last.gate_op = "pause" /\ pm_last.task = NoTask /\ pm_last.after_resume) =>
           pm_paused

\* the level of a sender when a command arrives
LevelOf(key) == GetLevelRes(sudo_grants, key, now).level

\* a denied command: gate, buffer and store stay, one denial goes to the
\* sender's channel
Denied(key, channel, denial) ==
    /\ pmVars' = pmVars
    /\ mem_keys' = mem_keys
    /\ cmd_sent' = <<SendFn(key, channel, denial)>>

\* C29: /pause and /resume from a sender below OPERATOR and /memory clear
\* from a sender below ADMIN change neither the gate nor its buffer nor the
\* memory store and send one denial to the sender's channel; the gate is
\* changed by /pause and /resume of senders at OPERATOR or above only, the
\* store is cleared by ADMIN senders only.
C29_DeniedCommandsChangeNothing ==
    [][\A key \in Keys, channel \in ChannelNames :
          /\ \A duration_seconds \in Durations :
                 (CmdPause(key, channel, duration_seconds) /\ LevelOf(key) < OPERATOR) =>
                     Denied(key, channel, OperatorRequired)
          /\ (CmdResume(key, channel) /\ LevelOf(key) < OPERATOR) =>
                 Denied(key, channel, OperatorRequired)
          /\ (CmdMemoryClear(key, channel) /\ LevelOf(key) < ADMIN) =>
                 Denied(key, channel, AdminRequired)]_vars

\* a sender at TRUSTED was denied /resume while the gate was paused with an
\* event in its buffer and the store held a memory
C29_Witness ==
    /\ cmd_sent = <<SendFn(UserKey, "c2", OperatorRequired)>>
    /\ LevelOf(UserKey) = TRUSTED
    /\ pm_paused
    /\ pm_queued # <<>>
    /\ mem_keys # {}

\* a rate-limit error or an HTTP 5xx response
Retryable(outcome) == IsRateLimitError(outcome) \/ outcome.status >= InternalServerError

\* C30: in a completion call of either provider there are at most 4
\* attempts (3 retries); every attempt that was followed by a wait and
\* another attempt ended with a rate-limit error or an HTTP 5xx response,
\* so any other error propagated where it first occurred; and the wait
\* after attempt a is 2^a seconds plus a jitter in [0,1).
C30_RetriesOnRateLimitAnd5xxOnly ==
    /\ Len(rt_log) <= 4
    /\ \A i \in DOMAIN rt_log :
           (i < Len(rt_log) \/ rt_pc = "trying") => Retryable(rt_log[i])
    /\ Len(rt_waits) = rt_attempt
    /\ \A i \in DOMAIN rt_waits :
           /\ rt_waits[i] >= 10 * Pow2(i - 1)
           /\ rt_waits[i] < 10 * (Pow2(i - 1) + 1)

\* the characters of s that are not whitespace
NonSpace(s) == SelectSeq(s, LAMBDA c : ~IsSpace(c))

RECURSIVE IsSubsequence(_, _)
\* the characters of s occur in t, in the order of s
IsSubsequence(s, t) ==
    IF s = <<>> THEN TRUE
    ELSE IF t = <<>> THEN FALSE
    ELSE IF Head(s) = Head(t) THEN IsSubsequence(Tail(s), Tail(t))
    ELSE IsSubsequence(s, Tail(t))

\* C32: every chunk chunk_message(T, L) returns, for L >= min_chunk_size, is
\* at most L characters long.
C32_EveryChunkWithinLimit ==
    ck_pc = "returned" => \A i \in DOMAIN ck_chunks : Len(ck_chunks[i]) <= ck_limit

\* C33: the chunks of chunk_message(T, L), one after the other, hold every
\* character of T that is not whitespace, in the order of T; what they may
\* hold besides are the fence lines repeated around the parts of a code
\* block.  So no part of a word longer than L is lost.
C33_ChunksKeepTheContent ==
    ck_pc = "returned" => IsSubsequence(NonSpace(ck_text), NonSpace(Concat(ck_chunks)))

\* the start of transport t failed: its start() raised, or the task it
\* made has ended with an exception
StartFailed(t) == or_raised = t \/ or_tasks[t] = "failed"

\* C31: when start() is over and the start of one transport has failed,
\* every other configured transport has been started and so have the bus
\* workers.
C31_FailedTransportStopsNoOther ==
    \A t \in Transports :
        (or_pc \in {"ready", "raised"} /\ StartFailed(t)) =>
            /\ "bus" \in or_started
            /\ \A u \in Transports \ {t} : or_settings[u] => u \in or_started

\* ------------------------------------------------------------------------
\* Properties of the tool loop
\* ------------------------------------------------------------------------
\* the assistant turns a run has appended to its message list
AssistantTurns == SelectSeq(ex_messages, LAMBDA msg : msg.role = "assistant")

\* what a run that returned has returned: the text of the first response
\* without tool calls, or the text of the last of max_iterations responses
\* that all carried tool calls
ReturnedRight ==
    ex_pc = "done" =>
        /\ ex_ret = ex_response.content
        /\ IF ex_response.tool_calls = <<>>
           THEN Len(AssistantTurns) = ex_calls - 1
           ELSE ex_calls = max_iterations /\ Len(AssistantTurns) = max_iterations

Running == ex_pc \in {"call", "tools"}

\* C15 as stated: run makes at most max_iterations provider calls and always
\* returns, with the text of the first response without tool calls or, on
\* exhaustion, of the last response.
C15_RunAlwaysReturns ==
    /\ [](ex_calls <= max_iterations /\ ReturnedRight)
    /\ Running ~> (ex_pc = "done")

\* C15, amended: run makes at most max_iterations provider calls and always
\* ends: it returns the text of the first response without tool calls or, on
\* exhaustion, of the last response, unless the provider call or a tool's
\* execute raises, and then the exception leaves run.
C15_RunEndsWithinMaxIterations ==
    /\ [](ex_calls <= max_iterations /\ ReturnedRight)
    /\ Running ~> (ex_pc \in {"done", "raised"})

\* a run returned the text of its last response after max_iterations
\* responses with tool calls
C15_Witness ==
    /\ ex_pc = "done"
    /\ ex_calls = max_iterations
    /\ ex_response.tool_calls # <<>>
    /\ ex_ret = "Done"

\* the entries of a turn's content that have the given type
EntriesOf(content, type) == SelectSeq(content, LAMBDA entry : entry.type = type)

\* C16: when a response carried k >= 1 tool calls, the message list passed to
\* the next provider call is the list passed to the previous one extended by
\* exactly one assistant turn holding the k tool_use entries in call order,
\* followed by exactly one user turn holding exactly k tool_result entries
\* in the same order and with the same ids.
C16_OneAssistantTurnOneResultTurn ==
    (ex_pc = "call" /\ ex_calls >= 1) =>
        LET k == Len(ex_response.tool_calls)
            n == Len(ex_passed)
        IN  /\ k >= 1
            /\ Len(ex_messages) = n + 2
            /\ SubSeq(ex_messages, 1, n) = ex_passed
            /\ ex_messages[n + 1].role = "assistant"
            /\ LET uses == EntriesOf(ex_messages[n + 1].content, "tool_use")
               IN  /\ Len(uses) = k
                   /\ \A i \in 1..k : /\ uses[i].id = ex_response.tool_calls[i].id
                                      /\ uses[i].name = ex_response.tool_calls[i].name
            /\ ex_messages[n + 2].role = "user"
            /\ LET results == ex_messages[n + 2].content
               IN  /\ Len(results) = k
                   /\ \A i \in 1..k : /\ results[i].type = "tool_result"
                                      /\ results[i].tool_use_id = ex_response.tool_calls[i].id

\* the second provider call of a run is about to be made after a response
\* with text and two tool calls
C16_Witness ==
    /\ ex_pc = "call"
    /\ ex_calls = 1
    /\ Len(ex_response.tool_calls) = 2
    /\ ex_response.content = "Done"
    /\ Len(ex_messages) = 3

\* ------------------------------------------------------------------------
\* Properties of the plan engine
\* ------------------------------------------------------------------------
\* some failure verdict of this execution was abort
Aborted == \E i \in DOMAIN plan_verdicts : plan_verdicts[i].action = "abort"

\* how often a step occurs in a history
Count(history, step) == Len(SelectSeq(history, LAMBDA x : x = step))

\* C17: execute_plan returns with plan status failed exactly when some
\* failure verdict was abort and with completed otherwise; after an abort
\* verdict no later step is executed and the later steps stay pending.
C17_FailedIffAborted ==
    /\ plan_pc = "returned" =>
           plan_status = IF Aborted THEN "failed" ELSE "completed"
    /\ \A i \in DOMAIN plan_verdicts :
           plan_verdicts[i].action = "abort" =>
               \A j \in DOMAIN plan_steps :
                   j > plan_verdicts[i].step =>
                       /\ plan_steps[j].status = "pending"
                       /\ Count(plan_started, j) = 0

\* a plan returned failed: its second step was aborted after the first one
\* ran, and a third step is left pending
C17_Witness ==
    /\ plan_pc = "returned"
    /\ plan_status = "failed"
    /\ Len(plan_steps) = 3
    /\ plan_steps[1].status = "done"
    /\ plan_verdicts = <<[step |-> 2, action |-> "abort"]>>
    /\ plan_steps[3].status = "pending"

\* C18: when execute_plan returns every step is done, skipped or failed,
\* or pending in a plan whose status is failed; no step is running.
C18_StepsFinalOnReturn ==
    plan_pc = "returned" =>
        \A j \in DOMAIN plan_steps :
            \/ plan_steps[j].status \in {"done", "skipped", "failed"}
            \/ plan_steps[j].status = "pending" /\ plan_status = "failed"

\* a plan returned completed with a step that failed and was not skipped
C18_Witness ==
    /\ plan_pc = "returned"
    /\ plan_status = "completed"
    /\ \E j \in DOMAIN plan_steps : plan_steps[j].status = "failed"
    /\ \E j \in DOMAIN plan_steps : plan_steps[j].status = "skipped"
    /\ \E j \in DOMAIN plan_steps : plan_steps[j].status = "done"

\* C19: a step whose failure verdict is retry is run again, and no step is
\* run more than twice.
C19_RetryRunsStepAgainOnce ==
    /\ \A j \in DOMAIN plan_steps : Count(plan_started, j) <= 2
    /\ plan_pc = "returned" =>
           \A i \in DOMAIN plan_verdicts :
               plan_verdicts[i].action = "retry" =>
                   Count(plan_started, plan_verdicts[i].step) = 2

\* the step with which the cap was reached
CapStep == plan_executed[MAX_TOOL_INVOCATIONS]

\* C20: tool.execute is invoked at most 15 times in one execute_plan, and
\* every step reached after the 15th invocation is skipped with the cap
\* reason and not run.
C20_AtMostFifteenInvocations ==
    /\ Len(plan_executed) <= MAX_TOOL_INVOCATIONS
    /\ tool_invocations = Len(plan_executed)
    /\ Len(plan_executed) = MAX_TOOL_INVOCATIONS =>
           \A j \in DOMAIN plan_steps :
               (j > CapStep /\ j < plan_i) =>
                   /\ plan_steps[j].status = "skipped"
                   /\ plan_steps[j].error = "Tool invocation cap reached"
                   /\ Count(plan_started, j) = 0

\* a plan returned after 15 invocations, one of them a failure, with its
\* last step skipped at the cap
C20_Witness ==
    /\ plan_pc = "returned"
    /\ tool_invocations = MAX_TOOL_INVOCATIONS
    /\ plan_verdicts # <<>>
    /\ plan_steps[Len(plan_steps)].status = "skipped"
    /\ plan_steps[Len(plan_steps)].error = "Tool invocation cap reached"

\* the provider answered with a steps object: a JSON object whose "steps"
\* is a list of objects
WellFormed(content) ==
    LET text == Unfence(content)
        data == IF text.raised THEN text ELSE JsonLoadsText(text.value)
    IN  /\ ~data.raised
        /\ data.value.t = "object"
        /\ data.value.steps.t = "array"
        /\ \A i \in DOMAIN data.value.steps.items : data.value.steps.items[i].t = "object"

\* C21: every create_plan call whose provider call returned persists and
\* returns a plan in status planning with 1 to 8 steps numbered 1..n in
\* order, and the plan is the single fallback step whenever the provider's
\* output is not a well-formed steps object.
C21_CreatePlanAlwaysReturnsAPlan ==
    cp_last.outcome \notin {"none", "ProviderError"} =>
        /\ cp_last.outcome = "returned"
        /\ cp_last.plan.id \in DOMAIN cp_db
        /\ cp_db[cp_last.plan.id] = cp_last.plan
        /\ cp_last.plan.status = "planning"
        /\ Len(cp_last.plan.steps) \in 1..MAX_STEPS
        /\ \A i \in DOMAIN cp_last.plan.steps : cp_last.plan.steps[i].id = i
        /\ ~WellFormed(cp_last.content) => cp_last.plan.steps = FallbackSteps

\* the rows of the table, as a set
StoredRows(rows) == {rows[i] : i \in DOMAIN rows}

\* C22: a stored row leaves the table only in a forget call for the row's
\* own channel; add_message, get_context, summarize, get_stats and forget
\* for another channel keep it.
C22_RowRemovedOnlyByForgetOfItsChannel ==
    [][\A row \in StoredRows(ctx_rows) :
          row \notin StoredRows(ctx_rows') =>
              ctx_last'.op = "forget" /\ ctx_last'.channel = row.channel]_vars

\* forget for one channel was called while the other channel had a row,
\* and that row is still stored
C22_Witness ==
    /\ ctx_last.op = "forget"
    /\ ctx_last.count > 0
    /\ \E row \in StoredRows(ctx_rows) : row.channel # ctx_last.channel

\* C23: with a provider configured, the messages get_context returns for a
\* non-empty channel have a total token count of at most the budget.
C23_GetContextWithinBudget ==
    (ctx_llm /\ ctx_last.op = "get_context" /\ ctx_last.messages # <<>>) =>
        TotalTokens(ctx_last.messages) <= max_context_tokens

\* handle is over for pl_msg
HandleOver == pl_pc \in {"returned", "raised"}

\* the assistant text that was stored for pl_msg
StoredReply == pl_effects[Len(pl_effects) - 1].content

\* C24: handle of a message that is no slash command, passes the rate
\* limiter and is not a dry run stores the user turn, then runs the
\* executor, then stores the assistant text and publishes it as one
\* message.outgoing to the same platform and channel with reply_to the id
\* of the inbound message.
C24_PlainMessageIsAnswered ==
    (HandleOver /\ pl_msg.passed /\ ~StartsWithSlash(pl_msg.msg.content) /\ ~pl_dry_run) =>
        /\ pl_pc = "returned"
        /\ Len(pl_effects) = 4
        /\ pl_effects[1] = AddMessageCall(pl_msg.msg, "user", pl_msg.msg.content)
        /\ pl_effects[2].op = "tool_executor.run"
        /\ pl_effects[3] = AddMessageCall(pl_msg.msg, "assistant", StoredReply)
        /\ pl_effects[4] = SendCall(pl_msg.msg, StoredReply, <<pl_msg.msg.message_id>>)

\* the user of the message being handled held a grant above their configured
\* level when handle read the level
LevelReadWasElevated == pl_level > StaticLevel(pl_msg.msg.key)

====
